---- MODULE Spec2Model ----
(***************************************************************************)
(* A model of the atomic value container of rust/src/atomic_value.rs.      *)
(*                                                                         *)
(* AtomicValue<T> is one AtomicPtr<T> (the slot) that is null or points to *)
(* a Box<T> the container allocated.  The heap is modelled explicitly:     *)
(* every Box::into_raw(Box::new(v)) takes a fresh address, every           *)
(* Box::from_raw releases one.                                             *)
(*                                                                         *)
(*   SpecSeq   one thread calling whole operations on one container, from  *)
(*             its construction to its drop                                *)
(*   SpecConc  threads calling load, store, swap and take on one shared    *)
(*             container, interleaved at the atomic instructions           *)
(*   SpecSwap  threads calling only swap, each call with a distinct value  *)
(***************************************************************************)
EXTENDS Integers, Sequences, FiniteSets, TLC

\* ---------------------------------------------------------------- bounds
\* values of T that the caller passes in
MaxVal == 2
\* calls made on the container in SpecSeq, after its construction
MaxOps == 3
\* threads sharing the container in SpecConc and SpecSwap
NThreads == 2
\* calls made by each thread in SpecConc and SpecSwap
MaxCalls == 2
\* calls made by all threads together in SpecNE
MaxNeCalls == 2
\* calls of run, submit_job and shutdown made on the ThreadPool by all threads
\* together, and calls of run among them
MaxTpCalls == 3
MaxRun == 2

\* largest n_threads a ThreadPool is created with
MaxWorkers == 2

\* values pushed into the pool by all threads together
MaxPush == 2
\* pop_front calls made by all threads together
MaxPop == 2

Values == 1..MaxVal
Threads == 1..NThreads
\* one allocation for the constructor and at most one for every call
MaxAddr == 1 + (IF MaxOps > NThreads * MaxCalls THEN MaxOps ELSE NThreads * MaxCalls)
Addrs == 1..MaxAddr

\* the null pointer, `0 as _`
Null == 0

VARIABLES
  heap,      \* heap[a]: the Box<T> at address a, [st, val]
  slot,      \* the AtomicPtr<T> of the container: Null or an address
  nAlloc,    \* number of Box::new calls made so far
  nRelease,  \* number of Box::from_raw calls made so far
  phase,     \* "none" before construction, "alive", "dropped"
  hist,      \* SpecSeq: the calls made so far, with their results
  pc,        \* pc[t]: where thread t stands inside its current call
  tptr,      \* tptr[t]: the raw pointer thread t holds in a local
  rets,      \* rets[t]: the results of the calls thread t has finished
  calls,     \* calls[t]: number of calls thread t has started
  uaf,       \* a load has cloned from an allocation that was not live
  ord,       \* the Ordering the last atomic swap of a store was performed with
  arc,       \* arc[p]: the ArcInner<T> with id p, [st, strong, val]
  held,      \* held[p]: number of Arc handles to p held outside the container
  twin,      \* two containers given the same calls, each a record of its own
  pool,      \* the SyncPool: its head pointer, its nodes, its threads' locals
  tp,        \* the ThreadPool: its sender, its channels, its callers
  app        \* a function of PResult applied to arguments, and its result

\* the variables of the later sections, which the calls of the sections
\* before them leave alone
ext == <<ord, arc, held, twin, pool, tp, app>>

vars == <<heap, slot, nAlloc, nRelease, phase, hist, pc, tptr, rets, calls, uaf, ext>>

\* ---------------------------------------------------------- return values
\* Option<T>, Result<(), T>, () and bool, as records of one shape
None == [tag |-> "None", val |-> 0]
Some(v) == [tag |-> "Some", val |-> v]
Ok == [tag |-> "Ok", val |-> 0]
Err(v) == [tag |-> "Err", val |-> v]
Unit == [tag |-> "Unit", val |-> 0]
Bool(b) == [tag |-> IF b THEN "True" ELSE "False", val |-> 0]

\* ------------------------------------------------------------------- heap
Unalloc == [st |-> "unalloc", val |-> 0]

\* Box::into_raw(Box::new(v)) placing the box at address a
BoxNew(h, a, v) == [h EXCEPT ![a] = [st |-> "live", val |-> v]]

\* let _ = Box::from_raw(p): the value is dropped with its box
BoxDrop(h, p) == [h EXCEPT ![p].st = "dropped"]

\* *Box::from_raw(p): the value is moved out to the caller, the box is freed
BoxInto(h, p) == [h EXCEPT ![p].st = "moved"]

\* the address the allocator hands out next
NewAddr == nAlloc + 1

\* the addresses that hold a box that has not been released
Live(h) == {a \in Addrs : h[a].st = "live"}

\* p.as_ref().cloned() for a pointer p read from the slot
LoadResult(h, p) == IF p = Null THEN None ELSE Some(h[p].val)

\* self.0.load(order).is_null()
IsNull(p) == p = Null

\* ================================================================ SpecSeq
\* One thread owns the container and calls whole operations on it.

Rec(op, arg, ret) == [op |-> op, arg |-> arg, ret |-> ret]

\* the reference-counted payloads an Arc<T> can point to, one per Arc::new
Payloads == 1..MaxAddr

NoArc == [st |-> "unalloc", strong |-> 0, val |-> 0]

\* no pair of containers is being compared
NoTwin == [kind |-> "none"]

\* no pool was created
NoPool == [kind |-> "none"]

\* no thread pool was created
NoTp == [kind |-> "none"]

\* no function was applied
NoApp == [kind |-> "none"]

\* no atomic swap was made yet, no Arc was created yet
ExtIdle ==
  /\ twin = NoTwin
  /\ pool = NoPool
  /\ tp = NoTp
  /\ app = NoApp
  /\ ord = "none"
  /\ arc = [p \in Payloads |-> NoArc]
  /\ held = [p \in Payloads |-> 0]

ThreadsIdle ==
  /\ ExtIdle
  /\ pc = [t \in Threads |-> "idle"]
  /\ tptr = [t \in Threads |-> Null]
  /\ rets = [t \in Threads |-> <<>>]
  /\ calls = [t \in Threads |-> 0]
  /\ uaf = FALSE

InitSeq ==
  /\ heap = [a \in Addrs |-> Unalloc]
  /\ slot = Null
  /\ nAlloc = 0
  /\ nRelease = 0
  /\ phase = "none"
  /\ hist = <<>>
  /\ ThreadsIdle

SeqFrame == UNCHANGED <<pc, tptr, rets, calls, uaf, ext>>

\* a call can be made on a constructed container that was not dropped
CanCall == phase = "alive" /\ Len(hist) <= MaxOps

\* AtomicValue::new(val)
New(v) ==
  /\ phase = "none"
  /\ heap' = BoxNew(heap, NewAddr, v)
  /\ slot' = NewAddr
  /\ nAlloc' = nAlloc + 1
  /\ phase' = "alive"
  /\ hist' = Append(hist, Rec("new", v, Unit))
  /\ UNCHANGED nRelease
  /\ SeqFrame

\* AtomicValue::empty()
Empty ==
  /\ phase = "none"
  /\ slot' = Null
  /\ phase' = "alive"
  /\ hist' = Append(hist, Rec("empty", 0, Unit))
  /\ UNCHANGED <<heap, nAlloc, nRelease>>
  /\ SeqFrame

\* default() written as new(T::default()), the way new_default() is
Default_New ==
  /\ phase = "none"
  /\ heap' = BoxNew(heap, NewAddr, 1)
  /\ slot' = NewAddr
  /\ nAlloc' = nAlloc + 1
  /\ phase' = "alive"
  /\ hist' = Append(hist, Rec("default", 0, Unit))
  /\ UNCHANGED nRelease
  /\ SeqFrame

\* <AtomicValue as Default>::default(), which is Self::empty()
Default ==
  /\ phase = "none"
  /\ slot' = Null
  /\ phase' = "alive"
  /\ hist' = Append(hist, Rec("default", 0, Unit))
  /\ UNCHANGED <<heap, nAlloc, nRelease>>
  /\ SeqFrame

\* load written as take: the pointer is swapped out instead of read
Load_Take ==
  /\ CanCall
  /\ slot' = Null
  /\ hist' = Append(hist, Rec("load", 0, LoadResult(heap, slot)))
  /\ UNCHANGED <<heap, nAlloc, nRelease, phase>>
  /\ SeqFrame

\* AtomicValue::load(order)
Load ==
  /\ CanCall
  /\ hist' = Append(hist, Rec("load", 0, LoadResult(heap, slot)))
  /\ UNCHANGED <<heap, slot, nAlloc, nRelease, phase>>
  /\ SeqFrame

\* is_empty answering whether a value is stored, the test negated
IsEmpty_Negated ==
  /\ CanCall
  /\ hist' = Append(hist, Rec("is_empty", 0, Bool(~IsNull(slot))))
  /\ UNCHANGED <<heap, slot, nAlloc, nRelease, phase>>
  /\ SeqFrame

\* AtomicValue::is_empty(order)
IsEmpty ==
  /\ CanCall
  /\ hist' = Append(hist, Rec("is_empty", 0, Bool(IsNull(slot))))
  /\ UNCHANGED <<heap, slot, nAlloc, nRelease, phase>>
  /\ SeqFrame

\* store without the Box::from_raw of the displaced pointer
Store_NoFree(v) ==
  /\ CanCall
  /\ heap' = BoxNew(heap, NewAddr, v)
  /\ slot' = NewAddr
  /\ nAlloc' = nAlloc + 1
  /\ hist' = Append(hist, Rec("store", v, Unit))
  /\ UNCHANGED <<nRelease, phase>>
  /\ SeqFrame

\* AtomicValue::store(val, order)
Store(v) ==
  LET ptr == slot
      h1 == BoxNew(heap, NewAddr, v)
  IN /\ CanCall
     /\ slot' = NewAddr
     /\ nAlloc' = nAlloc + 1
     /\ IF ptr # Null
          THEN heap' = BoxDrop(h1, ptr) /\ nRelease' = nRelease + 1
          ELSE heap' = h1 /\ UNCHANGED nRelease
     /\ hist' = Append(hist, Rec("store", v, Unit))
     /\ UNCHANGED phase
     /\ SeqFrame

\* store_if_empty handing val back on failure without Box::from_raw(ptr)
StoreIfEmpty_Leak(v) ==
  LET ptr == NewAddr
      h1 == BoxNew(heap, ptr, v)
  IN /\ CanCall
     /\ nAlloc' = nAlloc + 1
     /\ heap' = h1
     /\ IF slot = Null
          THEN slot' = ptr /\ hist' = Append(hist, Rec("store_if_empty", v, Ok))
          ELSE UNCHANGED slot /\ hist' = Append(hist, Rec("store_if_empty", v, Err(v)))
     /\ UNCHANGED <<nRelease, phase>>
     /\ SeqFrame

\* store_if_empty with compare_exchange expecting ptr instead of null: it
\* never finds the slot as expected and always takes the failure path
StoreIfEmpty_WrongExpected(v) ==
  LET ptr == NewAddr
      h1 == BoxNew(heap, ptr, v)
  IN /\ CanCall
     /\ nAlloc' = nAlloc + 1
     /\ heap' = BoxInto(h1, ptr)
     /\ nRelease' = nRelease + 1
     /\ hist' = Append(hist, Rec("store_if_empty", v, Err(h1[ptr].val)))
     /\ UNCHANGED <<slot, phase>>
     /\ SeqFrame

\* AtomicValue::store_if_empty(val, success, failure)
StoreIfEmpty(v) ==
  LET ptr == NewAddr
      h1 == BoxNew(heap, ptr, v)
  IN /\ CanCall
     /\ nAlloc' = nAlloc + 1
     /\ IF slot = Null
          THEN /\ slot' = ptr
               /\ heap' = h1
               /\ UNCHANGED nRelease
               /\ hist' = Append(hist, Rec("store_if_empty", v, Ok))
          ELSE /\ UNCHANGED slot
               /\ heap' = BoxInto(h1, ptr)
               /\ nRelease' = nRelease + 1
               /\ hist' = Append(hist, Rec("store_if_empty", v, Err(h1[ptr].val)))
     /\ UNCHANGED phase
     /\ SeqFrame

\* swap returning a clone of the old value and keeping its box
Swap_Clone(v) ==
  /\ CanCall
  /\ heap' = BoxNew(heap, NewAddr, v)
  /\ slot' = NewAddr
  /\ nAlloc' = nAlloc + 1
  /\ hist' = Append(hist, Rec("swap", v, LoadResult(heap, slot)))
  /\ UNCHANGED <<nRelease, phase>>
  /\ SeqFrame

\* AtomicValue::swap(val, order)
Swap(v) ==
  LET ptr == slot
      h1 == BoxNew(heap, NewAddr, v)
  IN /\ CanCall
     /\ slot' = NewAddr
     /\ nAlloc' = nAlloc + 1
     /\ IF ptr # Null
          THEN /\ heap' = BoxInto(h1, ptr)
               /\ nRelease' = nRelease + 1
               /\ hist' = Append(hist, Rec("swap", v, Some(h1[ptr].val)))
          ELSE /\ heap' = h1
               /\ UNCHANGED nRelease
               /\ hist' = Append(hist, Rec("swap", v, None))
     /\ UNCHANGED phase
     /\ SeqFrame

\* take reading the pointer with load instead of swapping null in
Take_NoClear ==
  LET ptr == slot
  IN /\ CanCall
     /\ IF ptr # Null
          THEN /\ heap' = BoxInto(heap, ptr)
               /\ nRelease' = nRelease + 1
               /\ hist' = Append(hist, Rec("take", 0, Some(heap[ptr].val)))
          ELSE /\ UNCHANGED <<heap, nRelease>>
               /\ hist' = Append(hist, Rec("take", 0, None))
     /\ UNCHANGED <<slot, nAlloc, phase>>
     /\ SeqFrame

\* AtomicValue::take(order)
Take ==
  LET ptr == slot
  IN /\ CanCall
     /\ slot' = Null
     /\ IF ptr # Null
          THEN /\ heap' = BoxInto(heap, ptr)
               /\ nRelease' = nRelease + 1
               /\ hist' = Append(hist, Rec("take", 0, Some(heap[ptr].val)))
          ELSE /\ UNCHANGED <<heap, nRelease>>
               /\ hist' = Append(hist, Rec("take", 0, None))
     /\ UNCHANGED <<nAlloc, phase>>
     /\ SeqFrame

\* drop that frees nothing, as without the Drop impl
Drop_Leak ==
  /\ phase = "alive"
  /\ phase' = "dropped"
  /\ hist' = Append(hist, Rec("drop", 0, Unit))
  /\ UNCHANGED <<heap, slot, nAlloc, nRelease>>
  /\ SeqFrame

\* <AtomicValue as Drop>::drop(&mut self)
Drop ==
  LET ptr == slot
  IN /\ phase = "alive"
     /\ phase' = "dropped"
     /\ IF ptr # Null
          THEN heap' = BoxDrop(heap, ptr) /\ nRelease' = nRelease + 1
          ELSE UNCHANGED <<heap, nRelease>>
     /\ hist' = Append(hist, Rec("drop", 0, Unit))
     /\ UNCHANGED <<slot, nAlloc>>
     /\ SeqFrame

NextSeq ==
  \/ \E v \in Values : New(v)
  \/ Empty
  \/ Default
  \/ Load
  \/ IsEmpty
  \/ \E v \in Values : Store(v)
  \/ \E v \in Values : StoreIfEmpty(v)
  \/ \E v \in Values : Swap(v)
  \/ Take
  \/ Drop

SpecSeq == InitSeq /\ [][NextSeq]_vars

\* ------------------------------------------------- reading the call history
\* the call that returned last
Last == hist[Len(hist)]

\* this step is a call of op
Called(op) == Len(hist') = Len(hist) + 1 /\ Last'.op = op

\* a call has been made before this step
HasLast == Len(hist) > 0

\* positions i of the history with a call at i and one at i + 1
Pairs == {i \in 1..Len(hist) : i + 1 <= Len(hist)}

\* the calls that put a box into the slot
Storing == {"new", "store", "store_if_empty", "swap"}

\* the container was made by empty() or default()
MadeEmpty == HasLast /\ hist[1].op \in {"empty", "default"}

\* C2: when the container is dropped, every allocation it made has been
\* released exactly once (nothing is live, releases equal allocations), and
\* drop itself frees the box in the slot exactly when the slot is non-null.
C2_FreeExactlyOnce ==
  [][Called("drop") =>
       /\ nRelease' = nAlloc'
       /\ Live(heap') = {}
       /\ (slot # Null => heap'[slot].st = "dropped" /\ nRelease' = nRelease + 1)
       /\ (slot = Null => heap' = heap /\ nRelease' = nRelease)]_vars

C2_Witness ==
  /\ phase = "dropped"
  /\ nAlloc >= 3
  /\ slot # Null
  /\ heap[slot].st = "dropped"
  /\ \E i \in 1..Len(hist) : hist[i].op = "store"
  /\ \E i \in 1..Len(hist) : hist[i].op = "take" /\ hist[i].ret # None

\* C4: store_if_empty(v2) on a slot filled with v1 returns Err(v2), leaves
\* the slot and the box it points to as they were (a load still gives v1),
\* and the box it allocated for v2 is released again: no new live box.
C4_StoreIfEmptyFull ==
  [][(Called("store_if_empty") /\ slot # Null) =>
       /\ Last'.ret = Err(Last'.arg)
       /\ slot' = slot
       /\ heap'[slot] = heap[slot]
       /\ heap[slot].st = "live"
       /\ LoadResult(heap', slot') = Some(heap[slot].val)
       /\ heap'[nAlloc'].st = "moved"
       /\ Live(heap') = Live(heap)
       /\ nAlloc' - nRelease' = nAlloc - nRelease]_vars

C4_Witness ==
  \E i \in Pairs :
    /\ hist[i].op = "store_if_empty" /\ hist[i].ret = Err(hist[i].arg)
    /\ hist[i + 1].op = "load" /\ hist[i + 1].ret \notin {None, Some(hist[i].arg)}

\* C5: store_if_empty(v) on a null slot returns Ok and installs v: the slot
\* is non-null and holds v, and a load or is_empty called next reports so.
C5_StoreIfEmptyNull ==
  [][ /\ (Called("store_if_empty") /\ slot = Null) =>
          (/\ Last'.ret = Ok
           /\ slot' # Null
           /\ heap'[slot'] = [st |-> "live", val |-> Last'.arg])
      /\ (HasLast /\ Last.op = "store_if_empty" /\ Last.ret = Ok /\ Called("load")) =>
          Last'.ret = Some(Last.arg)
      /\ (HasLast /\ Last.op = "store_if_empty" /\ Last.ret = Ok /\ Called("is_empty")) =>
          Last'.ret = Bool(FALSE)]_vars

C5_Witness ==
  \E i \in Pairs :
    /\ i > 1 /\ hist[i - 1].op = "take" /\ hist[i - 1].ret # None
    /\ hist[i].op = "store_if_empty" /\ hist[i].ret = Ok
    /\ hist[i + 1].op = "load" /\ hist[i + 1].ret = Some(hist[i].arg)

\* C6: swap(v) leaves v in the slot and returns what the slot held: None for
\* a null slot, Some(old value) for a filled one, whose box is released by
\* moving the value out; a swap called next returns Some(v).
C6_Swap ==
  [][ /\ Called("swap") =>
          /\ slot' # Null
          /\ heap'[slot'] = [st |-> "live", val |-> Last'.arg]
          /\ (slot = Null => Last'.ret = None /\ Live(heap') = Live(heap) \cup {slot'})
          /\ (slot # Null => /\ Last'.ret = Some(heap[slot].val)
                             /\ heap[slot].st = "live"
                             /\ heap'[slot].st = "moved"
                             /\ Live(heap') = (Live(heap) \ {slot}) \cup {slot'})
      /\ (HasLast /\ Last.op = "swap" /\ Called("swap")) => Last'.ret = Some(Last.arg)]_vars

C6_Witness ==
  \E i \in Pairs :
    /\ hist[i].op = "swap" /\ hist[i].ret = None
    /\ hist[i + 1].op = "swap" /\ hist[i + 1].ret = Some(hist[i].arg)
    /\ hist[i + 1].arg # hist[i].arg

\* C7: take sets the slot to null; it returns Some(old value) for a filled
\* slot, releasing its box by moving the value out, and None for a null slot,
\* changing nothing; an is_empty called next is true, a take called next
\* returns None.
C7_Take ==
  [][ /\ Called("take") =>
          /\ slot' = Null
          /\ (slot = Null => Last'.ret = None /\ heap' = heap /\ nRelease' = nRelease)
          /\ (slot # Null => /\ Last'.ret = Some(heap[slot].val)
                             /\ heap[slot].st = "live"
                             /\ heap' = [heap EXCEPT ![slot].st = "moved"]
                             /\ Live(heap') = {})
      /\ (HasLast /\ Last.op = "take" /\ Called("is_empty")) => Last'.ret = Bool(TRUE)
      /\ (HasLast /\ Last.op = "take" /\ Called("take")) => Last'.ret = None]_vars

C7_Witness ==
  \E i \in Pairs :
    /\ hist[i].op = "take" /\ hist[i].ret \in {Some(v) : v \in Values}
    /\ hist[i + 1].op = "take" /\ hist[i + 1].ret = None
    /\ slot = Null

\* C8: after store(v) the slot holds v, whether it was null or filled; the
\* box the store displaced is dropped by that call (the call returns unit,
\* the old value goes to nobody); a load called next returns Some(v), so
\* does a swap called next.
C8_Store ==
  [][ /\ Called("store") =>
          /\ slot' # Null
          /\ heap'[slot'] = [st |-> "live", val |-> Last'.arg]
          /\ Last'.ret = Unit
          /\ Live(heap') = {slot'}
          /\ (slot # Null => heap[slot].st = "live" /\ heap'[slot].st = "dropped")
          /\ (slot = Null => nRelease' = nRelease)
      /\ (HasLast /\ Last.op = "store" /\ (Called("load") \/ Called("swap"))) =>
          Last'.ret = Some(Last.arg)]_vars

C8_Witness ==
  \E i \in Pairs :
    /\ i > 1 /\ hist[i - 1].op \in Storing /\ hist[i - 1].arg # hist[i].arg
    /\ hist[i].op = "store"
    /\ hist[i + 1].op = "swap" /\ hist[i + 1].ret = Some(hist[i].arg)
    /\ nRelease >= 2

\* C9: load changes nothing: the slot, the heap and the release count are
\* the same after it as before; it returns None for a null slot and Some of
\* the value in the box the slot points to otherwise.
C9_LoadFrame ==
  [][Called("load") =>
       /\ slot' = slot
       /\ heap' = heap
       /\ nAlloc' = nAlloc
       /\ nRelease' = nRelease
       /\ (slot = Null => Last'.ret = None)
       /\ (slot # Null => heap[slot].st = "live" /\ Last'.ret = Some(heap[slot].val))]_vars

C9_Witness ==
  \E i \in Pairs :
    /\ hist[i].op = "load" /\ hist[i].ret # None
    /\ hist[i + 1].op = "load" /\ hist[i + 1].ret = hist[i].ret
    /\ slot # Null /\ Live(heap) = {slot}

\* C10: a container made by empty() or default() has a null slot and owns no
\* box until a value is stored: while no storing call was made nothing is
\* allocated, load returns None, is_empty returns true, and the first swap
\* returns None.
C10_EmptyCtor ==
  MadeEmpty =>
    /\ (Len(hist) = 1 => slot = Null)
    /\ \A i \in 2..Len(hist) :
         (\A j \in 2..(i - 1) : hist[j].op \notin Storing) =>
            /\ (hist[i].op = "load" => hist[i].ret = None)
            /\ (hist[i].op = "is_empty" => hist[i].ret = Bool(TRUE))
            /\ (hist[i].op = "swap" => hist[i].ret = None)
    /\ ((\A j \in 2..Len(hist) : hist[j].op \notin Storing) => (nAlloc = 0 /\ slot = Null))

C10_Witness ==
  /\ Len(hist) >= 4
  /\ hist[1].op = "default"
  /\ hist[2].op = "load" /\ hist[2].ret = None
  /\ hist[3].op = "is_empty" /\ hist[3].ret = Bool(TRUE)
  /\ hist[4].op = "swap" /\ hist[4].ret = None

\* C11: at every point of a sequence of calls, is_empty returns true exactly
\* when the slot is null, which is exactly when a load at that point returns
\* None; is_empty itself changes nothing.
C11_IsEmpty ==
  [][ /\ Called("is_empty") =>
          /\ Last'.ret \in {Bool(TRUE), Bool(FALSE)}
          /\ (Last'.ret = Bool(TRUE) <=> slot = Null)
          /\ slot' = slot /\ heap' = heap
      /\ (HasLast /\ Last.op = "is_empty" /\ Called("load")) =>
          (Last.ret = Bool(TRUE) <=> Last'.ret = None)
      /\ (HasLast /\ Last.op = "load" /\ Called("is_empty")) =>
          (Last'.ret = Bool(TRUE) <=> Last.ret = None)]_vars

C11_Witness ==
  \E i \in Pairs :
    /\ i > 1
    /\ hist[i - 1].op = "is_empty" /\ hist[i - 1].ret = Bool(TRUE)
    /\ hist[i].op \in Storing
    /\ hist[i + 1].op = "is_empty" /\ hist[i + 1].ret = Bool(FALSE)
    /\ slot # Null

\* =============================================================== SpecWeak
\* One thread using store_if_empty_weak, whose compare_exchange_weak may fail
\* although the slot holds the expected null.

\* store_if_empty_weak that forgets Box::from_raw(ptr) on the failure path
StoreIfEmptyWeak_Leak(v, spurious) ==
  LET ptr == NewAddr
      h1 == BoxNew(heap, ptr, v)
  IN /\ CanCall
     /\ nAlloc' = nAlloc + 1
     /\ heap' = h1
     /\ IF slot = Null /\ ~spurious
          THEN slot' = ptr /\ hist' = Append(hist, Rec("store_if_empty_weak", v, Ok))
          ELSE UNCHANGED slot /\ hist' = Append(hist, Rec("store_if_empty_weak", v, Err(v)))
     /\ UNCHANGED <<nRelease, phase>>
     /\ SeqFrame

\* store_if_empty_weak with compare_exchange_weak expecting ptr instead of
\* null: it never finds the slot as expected and always takes the failure
\* path
StoreIfEmptyWeak_WrongExpected(v, spurious) ==
  LET ptr == NewAddr
      h1 == BoxNew(heap, ptr, v)
  IN /\ CanCall
     /\ nAlloc' = nAlloc + 1
     /\ heap' = BoxInto(h1, ptr)
     /\ nRelease' = nRelease + 1
     /\ hist' = Append(hist, Rec("store_if_empty_weak", v, Err(h1[ptr].val)))
     /\ UNCHANGED <<slot, phase>>
     /\ SeqFrame

\* AtomicValue::store_if_empty_weak(val, success, failure); spurious is the
\* hardware's choice to fail the weak compare-and-swap
StoreIfEmptyWeak(v, spurious) ==
  LET ptr == NewAddr
      h1 == BoxNew(heap, ptr, v)
  IN /\ CanCall
     /\ nAlloc' = nAlloc + 1
     /\ IF slot = Null /\ ~spurious
          THEN /\ slot' = ptr
               /\ heap' = h1
               /\ UNCHANGED nRelease
               /\ hist' = Append(hist, Rec("store_if_empty_weak", v, Ok))
          ELSE /\ UNCHANGED slot
               /\ heap' = BoxInto(h1, ptr)
               /\ nRelease' = nRelease + 1
               /\ hist' = Append(hist, Rec("store_if_empty_weak", v, Err(h1[ptr].val)))
     /\ UNCHANGED phase
     /\ SeqFrame

NextWeak ==
  \/ \E v \in Values : New(v)
  \/ Empty
  \/ \E v \in Values : \E spurious \in BOOLEAN : StoreIfEmptyWeak(v, spurious)
  \/ Load
  \/ Take
  \/ Drop

SpecWeak == InitSeq /\ [][NextWeak]_vars

\* C12: store_if_empty_weak succeeds only on a null slot, and then the slot
\* holds the value; every failure, on a filled slot or spurious on a null
\* one, returns Err of the value passed, leaves slot and live boxes as they
\* were and releases the box the call allocated.
C12_StoreIfEmptyWeak ==
  [][Called("store_if_empty_weak") =>
       /\ Last'.ret \in {Ok, Err(Last'.arg)}
       /\ (slot # Null => Last'.ret # Ok)
       /\ (Last'.ret = Ok =>
             /\ slot' = nAlloc'
             /\ heap'[slot'] = [st |-> "live", val |-> Last'.arg]
             /\ Live(heap') = {slot'})
       /\ (Last'.ret # Ok =>
             /\ slot' = slot
             /\ Live(heap') = Live(heap)
             /\ \A a \in Live(heap) : heap'[a] = heap[a]
             /\ heap'[nAlloc'].st = "moved"
             /\ nAlloc' - nRelease' = nAlloc - nRelease)]_vars

\* a spurious failure on a null slot, the same value retried with success
C12_Witness ==
  \E i \in Pairs :
    /\ i > 1 /\ hist[i - 1].op \in {"empty", "take"}
    /\ hist[i].op = "store_if_empty_weak" /\ hist[i].ret = Err(hist[i].arg)
    /\ hist[i + 1].op = "store_if_empty_weak" /\ hist[i + 1].ret = Ok
    /\ hist[i + 1].arg = hist[i].arg
    /\ nAlloc - nRelease = 1

\* ============================================================== SpecRetry
\* A caller that calls store_if_empty_weak in a loop until it returns Ok,
\* passing what the failed call handed back, on a container made empty;
\* other threads load, take and ask is_empty meanwhile, none of them
\* stores.  The calls are atomic on the slot, so they are steps in any
\* order.

\* the store_if_empty_weak calls made so far
Attempts == {i \in 1..Len(hist) : hist[i].op = "store_if_empty_weak"}

\* the caller is inside its loop: its last attempt failed
Retrying ==
  /\ Attempts # {}
  /\ \A i \in Attempts : hist[i].ret # Ok

\* what the caller's last attempt handed back
HandedBack == hist[CHOOSE i \in Attempts : \A j \in Attempts : j <= i].ret.val

\* a call that is not the one that ends the loop leaves room for that one
CanGoOn == Len(hist) < MaxOps

\* the caller enters the loop with value v
RetryFirst(v, spurious) ==
  /\ Attempts = {}
  /\ spurious => CanGoOn
  /\ StoreIfEmptyWeak(v, spurious)

\* the caller goes round the loop
RetryAgain(spurious) ==
  /\ Retrying
  /\ spurious => CanGoOn
  /\ StoreIfEmptyWeak(HandedBack, spurious)

\* another thread loads
OtherLoad == CanGoOn /\ Load

\* another thread takes
OtherTake == CanGoOn /\ Take

\* another thread asks is_empty
OtherIsEmpty == CanGoOn /\ IsEmpty

NextRetry ==
  \/ Empty
  \/ Default
  \/ \E v \in Values : \E spurious \in BOOLEAN : RetryFirst(v, spurious)
  \/ \E spurious \in BOOLEAN : RetryAgain(spurious)
  \/ OtherLoad
  \/ OtherTake
  \/ OtherIsEmpty

\* the caller keeps calling, and the compare_exchange_weak does not fail
\* spuriously for ever
FairRetry ==
  /\ WF_vars(\E spurious \in BOOLEAN : RetryAgain(spurious))
  /\ SF_vars(RetryAgain(FALSE))

SpecRetry == InitSeq /\ [][NextRetry]_vars /\ FairRetry

\* C32: a caller retrying store_if_empty_weak on a container that nobody
\* else fills gets Ok in the end, with its value installed by that call,
\* provided spurious failures do not go on for ever; every failed attempt
\* returns Err of the value passed, so all attempts carry the same value.
C32_RetrySucceeds ==
  /\ [](\A i, j \in Attempts :
          /\ hist[i].ret \in {Ok, Err(hist[i].arg)}
          /\ hist[i].arg = hist[j].arg)
  /\ [][(Called("store_if_empty_weak") /\ Last'.ret = Ok)
          => (slot' # Null /\ heap'[slot'] = [st |-> "live", val |-> Last'.arg])]_vars
  /\ \A v \in Values :
       (\E i \in Attempts : hist[i].arg = v)
         ~> (\E i \in Attempts : hist[i] = Rec("store_if_empty_weak", v, Ok))

\* two failed attempts with nothing stored, then the same value installed
C32_Witness ==
  /\ Cardinality(Attempts) = 3
  /\ \E i \in Attempts : hist[i].ret = Ok /\ i = Len(hist)
  /\ slot # Null
  /\ heap[slot].val = Last.arg
\* ================================================================ SpecOrd
\* One thread calling store with the Ordering of its choice; ord records the
\* Ordering the atomic swap on the slot is executed with.

\* std::sync::atomic::Ordering, all of which AtomicPtr::swap accepts
Orderings == {"Relaxed", "Release", "Acquire", "AcqRel", "SeqCst"}

\* the orderings that are at least Acquire-Release
AtLeastAcqRel == {"AcqRel", "SeqCst"}

\* AtomicValue::store(val, order): self.0.swap(.., order) gets the caller's
\* order as it is
StoreOrd(v, order) ==
  LET ptr == slot
      h1 == BoxNew(heap, NewAddr, v)
  IN /\ CanCall
     /\ slot' = NewAddr
     /\ ord' = order
     /\ nAlloc' = nAlloc + 1
     /\ IF ptr # Null
          THEN heap' = BoxDrop(h1, ptr) /\ nRelease' = nRelease + 1
          ELSE heap' = h1 /\ UNCHANGED nRelease
     /\ hist' = Append(hist, Rec("store", v, Unit))
     /\ UNCHANGED <<phase, pc, tptr, rets, calls, uaf, arc, held, twin, pool, tp, app>>

NextOrd ==
  \/ \E v \in Values : New(v)
  \/ Empty
  \/ \E v \in Values : \E order \in Orderings : StoreOrd(v, order)
  \/ Load
  \/ Drop

SpecOrd == InitSeq /\ [][NextOrd]_vars

\* C13: whatever Ordering the caller passes to store, the atomic swap that
\* precedes the free of the displaced box is performed with at least
\* Acquire-Release semantics.
C13_SwapAtLeastAcqRel ==
  (HasLast /\ Last.op = "store" /\ nRelease > 0) => ord \in AtLeastAcqRel

\* =============================================================== SpecConc
\* Threads share one constructed container through &self.  A call is split
\* where the code leaves the atomic instruction on the slot: the pointer it
\* read or swapped out sits in a local until the call dereferences or
\* releases it.

\* every call gets a value of its own: the k-th call of thread t, with
\* thread 0 standing for the constructor
Tag(t, k) == t * MaxCalls + k

CtorHist(h) ==
  /\ phase = "alive"
  /\ hist = h
  /\ nRelease = 0
  /\ ThreadsIdle

\* the container as AtomicValue::empty() made it
MadeByEmpty ==
  /\ heap = [a \in Addrs |-> Unalloc]
  /\ slot = Null
  /\ nAlloc = 0
  /\ CtorHist(<<Rec("empty", 0, Unit)>>)

\* the container as AtomicValue::new(v) made it
MadeByNew(v) ==
  /\ heap = BoxNew([a \in Addrs |-> Unalloc], 1, v)
  /\ slot = 1
  /\ nAlloc = 1
  /\ CtorHist(<<Rec("new", v, Unit)>>)

InitConc == MadeByEmpty \/ \E v \in Values : MadeByNew(v)

ConcFrame == UNCHANGED <<phase, hist, ext>>

CanStart(t) == phase = "alive" /\ pc[t] = "idle" /\ calls[t] < MaxCalls

\* thread t goes from where it stands to pc value to, holding pointer p
Goto(t, to, p) ==
  /\ pc' = [pc EXCEPT ![t] = to]
  /\ tptr' = [tptr EXCEPT ![t] = p]

Begin(t) == calls' = [calls EXCEPT ![t] = @ + 1]

Return(t, r) ==
  /\ rets' = [rets EXCEPT ![t] = Append(@, r)]
  /\ Goto(t, "idle", Null)
  /\ UNCHANGED calls

\* load: self.0.load(order)
LoadBegin(t) ==
  /\ CanStart(t)
  /\ Begin(t)
  /\ Goto(t, "load_clone", slot)
  /\ UNCHANGED <<heap, slot, nAlloc, nRelease, rets, uaf>>
  /\ ConcFrame

\* load: .as_ref().cloned() on the pointer read before; cloning from a box
\* that was released meanwhile reads freed memory and yields any value
LoadClone(t) ==
  LET p == tptr[t]
  IN /\ pc[t] = "load_clone"
     /\ IF p = Null \/ heap[p].st = "live"
          THEN Return(t, LoadResult(heap, p)) /\ UNCHANGED uaf
          ELSE (\E v \in Values : Return(t, Some(v))) /\ uaf' = TRUE
     /\ UNCHANGED <<heap, slot, nAlloc, nRelease>>
     /\ ConcFrame

\* store: self.0.swap(Box::into_raw(Box::new(val)), order)
StoreBegin(t, v) ==
  /\ CanStart(t)
  /\ Begin(t)
  /\ heap' = BoxNew(heap, NewAddr, v)
  /\ nAlloc' = nAlloc + 1
  /\ slot' = NewAddr
  /\ Goto(t, "store_free", slot)
  /\ UNCHANGED <<nRelease, rets, uaf>>
  /\ ConcFrame

\* store: if !ptr.is_null() { let _ = Box::from_raw(ptr) }
StoreFree(t) ==
  LET p == tptr[t]
  IN /\ pc[t] = "store_free"
     /\ IF p # Null
          THEN heap' = BoxDrop(heap, p) /\ nRelease' = nRelease + 1
          ELSE UNCHANGED <<heap, nRelease>>
     /\ Return(t, Unit)
     /\ UNCHANGED <<slot, nAlloc, uaf>>
     /\ ConcFrame

\* swap: self.0.swap(Box::into_raw(Box::new(val)), order)
SwapBegin(t, v) ==
  /\ CanStart(t)
  /\ Begin(t)
  /\ heap' = BoxNew(heap, NewAddr, v)
  /\ nAlloc' = nAlloc + 1
  /\ slot' = NewAddr
  /\ Goto(t, "swap_move", slot)
  /\ UNCHANGED <<nRelease, rets, uaf>>
  /\ ConcFrame

\* swap finishing the way store does: the displaced box is dropped and the
\* caller gets no value
SwapMove_Dropped(t) ==
  LET p == tptr[t]
  IN /\ pc[t] = "swap_move"
     /\ IF p # Null
          THEN heap' = BoxDrop(heap, p) /\ nRelease' = nRelease + 1
          ELSE UNCHANGED <<heap, nRelease>>
     /\ Return(t, None)
     /\ UNCHANGED <<slot, nAlloc, uaf>>
     /\ ConcFrame

\* swap: if !ptr.is_null() { Some(*Box::from_raw(ptr)) } else { None }
SwapMove(t) ==
  LET p == tptr[t]
  IN /\ pc[t] = "swap_move"
     /\ IF p # Null
          THEN /\ heap' = BoxInto(heap, p)
               /\ nRelease' = nRelease + 1
               /\ Return(t, Some(heap[p].val))
          ELSE /\ UNCHANGED <<heap, nRelease>>
               /\ Return(t, None)
     /\ UNCHANGED <<slot, nAlloc, uaf>>
     /\ ConcFrame

\* take: self.0.swap(0 as _, order)
TakeBegin(t) ==
  /\ CanStart(t)
  /\ Begin(t)
  /\ slot' = Null
  /\ Goto(t, "take_move", slot)
  /\ UNCHANGED <<heap, nAlloc, nRelease, rets, uaf>>
  /\ ConcFrame

\* take: if !ptr.is_null() { Some(*Box::from_raw(ptr)) } else { None }
TakeMove(t) ==
  LET p == tptr[t]
  IN /\ pc[t] = "take_move"
     /\ IF p # Null
          THEN /\ heap' = BoxInto(heap, p)
               /\ nRelease' = nRelease + 1
               /\ Return(t, Some(heap[p].val))
          ELSE /\ UNCHANGED <<heap, nRelease>>
               /\ Return(t, None)
     /\ UNCHANGED <<slot, nAlloc, uaf>>
     /\ ConcFrame

NextConc ==
  \E t \in Threads :
    \/ LoadBegin(t)
    \/ LoadClone(t)
    \/ \E v \in Values : StoreBegin(t, v)
    \/ StoreFree(t)
    \/ \E v \in Values : SwapBegin(t, v)
    \/ SwapMove(t)
    \/ TakeBegin(t)
    \/ TakeMove(t)

SpecConc == InitConc /\ [][NextConc]_vars

\* ================================================================ SpecSie
\* Threads calling store_if_empty on one container made empty, and nothing
\* else.  The call is split at its compare_exchange: the box is made
\* before it, and on failure the value is taken out of the box after it.

\* store_if_empty: let ptr = Box::into_raw(Box::new(val)), val being the
\* value of this call alone
SieBox(t) ==
  /\ CanStart(t)
  /\ Begin(t)
  /\ heap' = BoxNew(heap, NewAddr, Tag(t, calls[t] + 1))
  /\ nAlloc' = nAlloc + 1
  /\ Goto(t, "sie_cas", NewAddr)
  /\ UNCHANGED <<slot, nRelease, rets, uaf>>
  /\ ConcFrame

\* store_if_empty storing ptr whatever the slot holds
SieCas_Blind(t) ==
  /\ pc[t] = "sie_cas"
  /\ slot' = tptr[t]
  /\ Return(t, Ok)
  /\ UNCHANGED <<heap, nAlloc, nRelease, uaf>>
  /\ ConcFrame

\* store_if_empty: self.0.compare_exchange(0 as _, ptr, success, failure)
\* and .map(|_| ())
SieCas(t) ==
  /\ pc[t] = "sie_cas"
  /\ IF slot = Null
       THEN /\ slot' = tptr[t]
            /\ Return(t, Ok)
       ELSE /\ pc' = [pc EXCEPT ![t] = "sie_unbox"]
            /\ UNCHANGED <<slot, tptr, rets, calls>>
  /\ UNCHANGED <<heap, nAlloc, nRelease, uaf>>
  /\ ConcFrame

\* store_if_empty: .map_err(|_| unsafe { *Box::from_raw(ptr) })
SieUnbox(t) ==
  LET p == tptr[t]
  IN /\ pc[t] = "sie_unbox"
     /\ heap' = BoxInto(heap, p)
     /\ nRelease' = nRelease + 1
     /\ uaf' = (uaf \/ heap[p].st # "live")
     /\ Return(t, Err(heap[p].val))
     /\ UNCHANGED <<slot, nAlloc>>
     /\ ConcFrame

NextSie ==
  \E t \in Threads :
    \/ SieBox(t)
    \/ SieCas(t)
    \/ SieUnbox(t)

SpecSie == MadeByEmpty /\ [][NextSie]_vars

\* the calls that have returned: thread and number of the call
Returned == {c \in Threads \X (1..MaxCalls) : c[2] <= Len(rets[c[1]])}

\* the calls that returned Ok
Winners == {c \in Returned : rets[c[1]][c[2]] = Ok}

\* C33: of the store_if_empty calls made concurrently on an empty container
\* at most one returns Ok, and once all calls made have returned exactly
\* one has; the slot then holds that call's value; every other call has
\* returned Err with its own value, whose box was released exactly once, so
\* that the winner's box is the only one alive.
C33_OneWinner ==
  /\ Cardinality(Winners) <= 1
  /\ ~uaf
  /\ \A c \in Returned \ Winners : rets[c[1]][c[2]] = Err(Tag(c[1], c[2]))
  /\ \A c \in Winners :
       slot # Null /\ heap[slot] = [st |-> "live", val |-> Tag(c[1], c[2])]
  /\ nRelease = Cardinality(Returned \ Winners)
  /\ ((\A t \in Threads : pc[t] = "idle") /\ Returned # {})
       => /\ Cardinality(Winners) = 1
          /\ Live(heap) = {slot}
          /\ nAlloc - nRelease = 1

\* every thread has called, all calls have returned, and the call that won
\* is not the one that made its box first
C33_Witness ==
  /\ \A t \in Threads : pc[t] = "idle" /\ calls[t] >= 1
  /\ Cardinality(Winners) = 1
  /\ slot > 1
  /\ heap[1].st = "moved"
\* =============================================================== SpecSwap
\* Every thread calls swap MaxCalls times, each call with its own value.

InitSwap == MadeByEmpty \/ MadeByNew(Tag(0, 1))

NextSwap ==
  \E t \in Threads :
    \/ SwapBegin(t, Tag(t, calls[t] + 1))
    \/ SwapMove(t)

SpecSwap == InitSwap /\ [][NextSwap]_vars

\* ------------------------------------------------------ concurrent claims
\* C1: a load never clones from a box that was released: whenever a load
\* dereferences the pointer it read from the slot, the box is still live.
C1_NoUseAfterFree == uaf = FALSE

\* every thread has made all its calls and every call has returned
AllReturned == \A t \in Threads : pc[t] = "idle" /\ calls[t] = MaxCalls

\* the values passed to swap, and the value the container was built with
Submitted == {Tag(t, k) : t \in Threads, k \in 1..MaxCalls}
Initial == IF hist[1].op = "new" THEN {hist[1].arg} ELSE {}

\* the calls that returned r
ReturnedAs(r) == {c \in Threads \X (1..MaxCalls) : c[2] <= Len(rets[c[1]]) /\ rets[c[1]][c[2]] = r}

\* 1 if the slot holds x in a live box, else 0
InSlot(x) == IF slot # Null /\ heap[slot] = [st |-> "live", val |-> x] THEN 1 ELSE 0

\* C3: once every swap has returned, the slot holds one of the submitted
\* values, and each submitted value and the initial value is either in the
\* slot or was returned by exactly one swap, never both and never twice;
\* the only other result is one None when the container started empty.
C3_SwapConservation ==
  AllReturned =>
    /\ slot # Null
    /\ heap[slot].st = "live"
    /\ heap[slot].val \in Submitted
    /\ \A x \in Submitted \cup Initial : Cardinality(ReturnedAs(Some(x))) + InSlot(x) = 1
    /\ Cardinality(ReturnedAs(None)) = 1 - Cardinality(Initial)
    /\ \A t \in Threads : Len(rets[t]) = MaxCalls
    /\ nAlloc - nRelease = 1

C3_Witness ==
  /\ AllReturned
  /\ Initial # {}
  /\ \E t \in Threads : \E u \in Threads \ {t} :
       rets[t] = [k \in 1..MaxCalls |-> Some(Tag(u, k))]

TypeOK ==
  /\ heap \in [Addrs -> [st : {"unalloc", "live", "dropped", "moved"}, val : 0..(MaxVal + NThreads * MaxCalls)]]
  /\ slot \in Addrs \cup {Null}
  /\ nAlloc \in 0..MaxAddr
  /\ nRelease \in 0..MaxAddr
  /\ phase \in {"none", "alive", "dropped"}

\* ============================================================= SpecArcSeq
\* AtomicArcValue<T> is AtomicValue<Arc<T>>: the box the slot points to holds
\* an Arc handle, modelled as the id of its payload.  One thread makes the
\* calls; it also creates, clones and drops handles of its own.

\* the id of the payload the next Arc::new creates
NewArc == Cardinality({p \in Payloads : arc[p].st # "unalloc"}) + 1

\* Arc::new(v) creating payload p
ArcNew(A, p, v) == [A EXCEPT ![p] = [st |-> "live", strong |-> 1, val |-> v]]

\* Arc::clone of a handle to p
ArcClone(A, p) == [A EXCEPT ![p].strong = @ + 1]

\* drop of a handle to p: the payload is freed with its last handle
ArcDrop(A, p) ==
  IF A[p].strong = 1
    THEN [A EXCEPT ![p] = [st |-> "freed", strong |-> 0, val |-> @.val]]
    ELSE [A EXCEPT ![p].strong = @ - 1]

\* Arc::into_inner(handle to p): Some(value) for the only handle, else None;
\* the handle is consumed either way
ArcIntoInner(A, p) == IF A[p].strong = 1 THEN Some(A[p].val) ELSE None

\* the payloads that are allocated and not freed
LivePayloads(A) == {p \in Payloads : A[p].st = "live"}

\* the handles this thread holds
Handles == {p \in Payloads : held[p] > 0}

\* number of live boxes whose Arc points to p
InBoxes(h, p) == Cardinality({a \in Addrs : h[a].st = "live" /\ h[a].val = p})

ArcFrame == UNCHANGED <<pc, tptr, rets, calls, uaf, ord, twin, pool, tp, app>>

\* the caller can act: nothing has panicked, the history has room
CanAct == phase \in {"none", "alive"} /\ Len(hist) <= MaxOps

\* the caller's own Arc::new(v), as `let s1: Arc<str> = "abcde".into()`
CallerArcNew(v) ==
  /\ CanAct
  /\ arc' = ArcNew(arc, NewArc, v)
  /\ held' = [held EXCEPT ![NewArc] = 1]
  /\ hist' = Append(hist, Rec("arc_new", v, Some(NewArc)))
  /\ UNCHANGED <<heap, slot, nAlloc, nRelease, phase>>
  /\ ArcFrame

\* the caller's own Arc::clone(&s1)
CallerClone(p) ==
  /\ CanAct
  /\ held[p] > 0
  /\ arc' = ArcClone(arc, p)
  /\ held' = [held EXCEPT ![p] = @ + 1]
  /\ hist' = Append(hist, Rec("arc_clone", p, Some(p)))
  /\ UNCHANGED <<heap, slot, nAlloc, nRelease, phase>>
  /\ ArcFrame

\* a handle of the caller going out of scope
CallerDrop(p) ==
  /\ CanAct
  /\ held[p] > 0
  /\ arc' = ArcDrop(arc, p)
  /\ held' = [held EXCEPT ![p] = @ - 1]
  /\ hist' = Append(hist, Rec("arc_drop", p, Unit))
  /\ UNCHANGED <<heap, slot, nAlloc, nRelease, phase>>
  /\ ArcFrame

\* AtomicArcValue::empty()
AavEmpty ==
  /\ phase = "none"
  /\ slot' = Null
  /\ phase' = "alive"
  /\ hist' = Append(hist, Rec("empty", 0, Unit))
  /\ UNCHANGED <<heap, nAlloc, nRelease, arc, held>>
  /\ ArcFrame

\* AtomicArcValue::from_arc(val): the handle moves into a new box
AavFromArc(p) ==
  /\ phase = "none"
  /\ held[p] > 0
  /\ held' = [held EXCEPT ![p] = @ - 1]
  /\ heap' = BoxNew(heap, NewAddr, p)
  /\ slot' = NewAddr
  /\ nAlloc' = nAlloc + 1
  /\ phase' = "alive"
  /\ hist' = Append(hist, Rec("from_arc", p, Unit))
  /\ UNCHANGED <<nRelease, arc>>
  /\ ArcFrame

\* AtomicArcValue::new(val): Self::from_arc(Arc::new(val))
AavNew(v) ==
  /\ phase = "none"
  /\ arc' = ArcNew(arc, NewArc, v)
  /\ heap' = BoxNew(heap, NewAddr, NewArc)
  /\ slot' = NewAddr
  /\ nAlloc' = nAlloc + 1
  /\ phase' = "alive"
  /\ hist' = Append(hist, Rec("new", v, Unit))
  /\ UNCHANGED <<nRelease, held>>
  /\ ArcFrame

\* a call can be made on the constructed container
AavCanCall == phase = "alive" /\ Len(hist) <= MaxOps

\* the thread panicked
Panic == [tag |-> "Panic", val |-> 0]

\* load cloning the payload into an Arc of its own instead of the handle
AavLoad_DeepCopy ==
  LET ptr == slot
  IN /\ AavCanCall
     /\ IF ptr # Null
          THEN /\ arc' = ArcNew(arc, NewArc, arc[heap[ptr].val].val)
               /\ held' = [held EXCEPT ![NewArc] = @ + 1]
               /\ hist' = Append(hist, Rec("load", 0, Some(NewArc)))
          ELSE /\ UNCHANGED <<arc, held>>
               /\ hist' = Append(hist, Rec("load", 0, None))
     /\ UNCHANGED <<heap, slot, nAlloc, nRelease, phase>>
     /\ ArcFrame

\* AtomicArcValue::load(order): .as_ref().map(Arc::clone)
AavLoad ==
  LET ptr == slot
  IN /\ AavCanCall
     /\ IF ptr # Null
          THEN /\ arc' = ArcClone(arc, heap[ptr].val)
               /\ held' = [held EXCEPT ![heap[ptr].val] = @ + 1]
               /\ hist' = Append(hist, Rec("load", 0, Some(heap[ptr].val)))
          ELSE /\ UNCHANGED <<arc, held>>
               /\ hist' = Append(hist, Rec("load", 0, None))
     /\ UNCHANGED <<heap, slot, nAlloc, nRelease, phase>>
     /\ ArcFrame

\* AtomicArcValue::store_arc(val, order): self.0.store(val, order)
AavStoreArc(p) ==
  LET ptr == slot
      h1 == BoxNew(heap, NewAddr, p)
  IN /\ AavCanCall
     /\ held[p] > 0
     /\ held' = [held EXCEPT ![p] = @ - 1]
     /\ slot' = NewAddr
     /\ nAlloc' = nAlloc + 1
     /\ IF ptr # Null
          THEN /\ heap' = BoxDrop(h1, ptr)
               /\ nRelease' = nRelease + 1
               /\ arc' = ArcDrop(arc, heap[ptr].val)
          ELSE /\ heap' = h1
               /\ UNCHANGED <<nRelease, arc>>
     /\ hist' = Append(hist, Rec("store_arc", p, Unit))
     /\ UNCHANGED phase
     /\ ArcFrame

\* AtomicArcValue::store(val, order): self.0.store(Arc::new(val), order)
AavStore(v) ==
  LET ptr == slot
      np == NewArc
      a1 == ArcNew(arc, np, v)
      h1 == BoxNew(heap, NewAddr, np)
  IN /\ AavCanCall
     /\ slot' = NewAddr
     /\ nAlloc' = nAlloc + 1
     /\ IF ptr # Null
          THEN /\ heap' = BoxDrop(h1, ptr)
               /\ nRelease' = nRelease + 1
               /\ arc' = ArcDrop(a1, heap[ptr].val)
          ELSE /\ heap' = h1
               /\ arc' = a1
               /\ UNCHANGED nRelease
     /\ hist' = Append(hist, Rec("store", v, Unit))
     /\ UNCHANGED <<phase, held>>
     /\ ArcFrame

\* AtomicArcValue::swap_arc(val, order): self.0.swap(val, order)
AavSwapArc(p) ==
  LET ptr == slot
      h1 == BoxNew(heap, NewAddr, p)
  IN /\ AavCanCall
     /\ held[p] > 0
     /\ slot' = NewAddr
     /\ nAlloc' = nAlloc + 1
     /\ IF ptr # Null
          THEN /\ heap' = BoxInto(h1, ptr)
               /\ nRelease' = nRelease + 1
               /\ held' = [[held EXCEPT ![p] = @ - 1] EXCEPT ![heap[ptr].val] = @ + 1]
               /\ hist' = Append(hist, Rec("swap_arc", p, Some(heap[ptr].val)))
          ELSE /\ heap' = h1
               /\ UNCHANGED nRelease
               /\ held' = [held EXCEPT ![p] = @ - 1]
               /\ hist' = Append(hist, Rec("swap_arc", p, None))
     /\ UNCHANGED <<phase, arc>>
     /\ ArcFrame

\* AtomicArcValue::take(order): self.0.take(order)
AavTake ==
  LET ptr == slot
  IN /\ AavCanCall
     /\ slot' = Null
     /\ IF ptr # Null
          THEN /\ heap' = BoxInto(heap, ptr)
               /\ nRelease' = nRelease + 1
               /\ held' = [held EXCEPT ![heap[ptr].val] = @ + 1]
               /\ hist' = Append(hist, Rec("take", 0, Some(heap[ptr].val)))
          ELSE /\ UNCHANGED <<heap, nRelease, held>>
               /\ hist' = Append(hist, Rec("take", 0, None))
     /\ UNCHANGED <<nAlloc, phase, arc>>
     /\ ArcFrame

\* store_arc_if_empty dropping the box with its Arc on failure and handing
\* back a handle that no longer counts
AavStoreArcIfEmpty_DropsArc(p) ==
  LET ptr == NewAddr
      h1 == BoxNew(heap, ptr, p)
  IN /\ AavCanCall
     /\ held[p] > 0
     /\ nAlloc' = nAlloc + 1
     /\ IF slot = Null
          THEN /\ slot' = ptr
               /\ heap' = h1
               /\ held' = [held EXCEPT ![p] = @ - 1]
               /\ UNCHANGED <<nRelease, arc>>
               /\ hist' = Append(hist, Rec("store_arc_if_empty", p, Ok))
          ELSE /\ UNCHANGED <<slot, held>>
               /\ heap' = BoxDrop(h1, ptr)
               /\ arc' = ArcDrop(arc, p)
               /\ nRelease' = nRelease + 1
               /\ hist' = Append(hist, Rec("store_arc_if_empty", p, Err(p)))
     /\ UNCHANGED phase
     /\ ArcFrame

\* AtomicArcValue::store_arc_if_empty(val, success, failure):
\* self.0.store_if_empty(val, success, failure)
AavStoreArcIfEmpty(p) ==
  LET ptr == NewAddr
      h1 == BoxNew(heap, ptr, p)
  IN /\ AavCanCall
     /\ held[p] > 0
     /\ nAlloc' = nAlloc + 1
     /\ IF slot = Null
          THEN /\ slot' = ptr
               /\ heap' = h1
               /\ held' = [held EXCEPT ![p] = @ - 1]
               /\ UNCHANGED nRelease
               /\ hist' = Append(hist, Rec("store_arc_if_empty", p, Ok))
          ELSE /\ UNCHANGED <<slot, held>>
               /\ heap' = BoxInto(h1, ptr)
               /\ nRelease' = nRelease + 1
               /\ hist' = Append(hist, Rec("store_arc_if_empty", p, Err(h1[ptr].val)))
     /\ UNCHANGED <<phase, arc>>
     /\ ArcFrame

\* AtomicArcValue::store_if_empty(val, success, failure):
\* self.0.store_if_empty(Arc::new(val), ..).map_err(|v| Arc::into_inner(v).unwrap())
AavStoreIfEmpty(v) ==
  LET ptr == NewAddr
      np == NewArc
      a1 == ArcNew(arc, np, v)
      h1 == BoxNew(heap, ptr, np)
      inner == ArcIntoInner(a1, h1[ptr].val)
  IN /\ AavCanCall
     /\ nAlloc' = nAlloc + 1
     /\ IF slot = Null
          THEN /\ slot' = ptr
               /\ heap' = h1
               /\ arc' = a1
               /\ UNCHANGED <<nRelease, phase>>
               /\ hist' = Append(hist, Rec("store_if_empty", v, Ok))
          ELSE /\ UNCHANGED slot
               /\ heap' = BoxInto(h1, ptr)
               /\ nRelease' = nRelease + 1
               /\ arc' = ArcDrop(a1, h1[ptr].val)
               /\ IF inner # None
                    THEN /\ hist' = Append(hist, Rec("store_if_empty", v, Err(inner.val)))
                         /\ UNCHANGED phase
                    ELSE /\ hist' = Append(hist, Rec("store_if_empty", v, Panic))
                         /\ phase' = "panicked"
     /\ UNCHANGED held
     /\ ArcFrame

\* <AtomicValue<Arc<T>> as Drop>::drop: the box goes and its Arc with it
AavDrop ==
  LET ptr == slot
  IN /\ phase = "alive"
     /\ phase' = "dropped"
     /\ IF ptr # Null
          THEN /\ heap' = BoxDrop(heap, ptr)
               /\ nRelease' = nRelease + 1
               /\ arc' = ArcDrop(arc, heap[ptr].val)
          ELSE UNCHANGED <<heap, nRelease, arc>>
     /\ hist' = Append(hist, Rec("drop", 0, Unit))
     /\ UNCHANGED <<slot, nAlloc, held>>
     /\ ArcFrame

NextArcSeq ==
  \/ \E v \in Values : CallerArcNew(v)
  \/ \E p \in Payloads : CallerClone(p)
  \/ \E p \in Payloads : CallerDrop(p)
  \/ AavEmpty
  \/ \E p \in Payloads : AavFromArc(p)
  \/ \E v \in Values : AavNew(v)
  \/ AavLoad
  \/ \E p \in Payloads : AavStoreArc(p)
  \/ \E v \in Values : AavStore(v)
  \/ \E p \in Payloads : AavSwapArc(p)
  \/ AavTake
  \/ \E p \in Payloads : AavStoreArcIfEmpty(p)
  \/ \E v \in Values : AavStoreIfEmpty(v)
  \/ AavDrop

SpecArcSeq == InitSeq /\ [][NextArcSeq]_vars

\* every payload's count is the number of handles to it, in boxes and held,
\* and a payload is live exactly while it has a handle
ArcCounts ==
  \A p \in Payloads :
    /\ arc[p].strong = InBoxes(heap, p) + held[p]
    /\ (arc[p].st = "live" <=> arc[p].strong > 0)

\* C15: AtomicArcValue::load on a filled slot returns a handle to the payload
\* the slot's box points to, raises that payload's count by exactly one,
\* creates no payload and touches no other, and leaves slot and boxes alone;
\* on a null slot it returns None and no count changes.
C15_ArcLoad ==
  [][Called("load") =>
       /\ slot' = slot
       /\ heap' = heap
       /\ NewArc' = NewArc
       /\ (slot = Null => Last'.ret = None /\ arc' = arc /\ held' = held)
       /\ (slot # Null =>
             /\ Last'.ret = Some(heap[slot].val)
             /\ arc[heap[slot].val].st = "live"
             /\ arc' = [arc EXCEPT ![heap[slot].val].strong = @ + 1]
             /\ held' = [held EXCEPT ![heap[slot].val] = @ + 1])]_vars

\* the container was built from a handle the caller kept a clone of, and a
\* load gave one more handle to that payload
C15_Witness ==
  /\ Len(hist) = 4
  /\ hist[2].op = "arc_clone"
  /\ hist[3].op = "from_arc"
  /\ hist[4].op = "load" /\ hist[4].ret = Some(hist[3].arg)
  /\ arc[hist[3].arg].strong = 3
  /\ held[hist[3].arg] = 2
  /\ NewArc = 2

\* C16: when store_if_empty or store_arc_if_empty finds the slot filled, the
\* slot, its box and every payload that was live keep their state and count,
\* no handle of the caller is lost, and the attempt comes back: store_if_empty
\* returns Err of the T passed, without a panic, store_arc_if_empty returns
\* Err of the Arc passed.
C16_ArcStoreIfEmptyFull ==
  [][((Called("store_if_empty") \/ Called("store_arc_if_empty")) /\ slot # Null) =>
       /\ slot' = slot
       /\ heap'[slot] = heap[slot]
       /\ Live(heap') = Live(heap)
       /\ \A p \in LivePayloads(arc) : arc'[p] = arc[p]
       /\ LivePayloads(arc') = LivePayloads(arc)
       /\ held' = held
       /\ phase' = "alive"
       /\ Last'.ret = Err(Last'.arg)]_vars

C16_Witness ==
  /\ Len(hist) = 4
  /\ hist[1].op = "arc_new"
  /\ hist[2].op = "new"
  /\ hist[3].op = "store_arc_if_empty" /\ hist[3].ret = Err(hist[1].ret.val)
  /\ hist[4].op = "store_if_empty" /\ hist[4].ret = Err(hist[4].arg)
  /\ hist[4].arg # hist[2].arg
  /\ held[hist[1].ret.val] = 1 /\ arc[hist[1].ret.val].strong = 1

\* ============================================================ SpecArcConc
\* Threads share one AtomicArcValue that holds a handle to payload 1; they
\* load, store new values and let go of the handles they loaded.

InitArcConc ==
  \E v \in Values :
    /\ heap = BoxNew([a \in Addrs |-> Unalloc], 1, 1)
    /\ slot = 1
    /\ nAlloc = 1
    /\ nRelease = 0
    /\ phase = "alive"
    /\ hist = <<Rec("new", v, Unit)>>
    /\ pc = [t \in Threads |-> "idle"]
    /\ tptr = [t \in Threads |-> Null]
    /\ rets = [t \in Threads |-> <<>>]
    /\ calls = [t \in Threads |-> 0]
    /\ uaf = FALSE
    /\ ord = "none"
    /\ twin = NoTwin
    /\ pool = NoPool
    /\ tp = NoTp
    /\ app = NoApp
    /\ arc = ArcNew([p \in Payloads |-> NoArc], 1, v)
    /\ held = [p \in Payloads |-> 0]

ArcConcFrame == UNCHANGED <<phase, hist, ord, twin, pool, tp, app>>

\* AtomicArcValue::load: self.0 .0.load(order)
AavLoadBegin(t) ==
  /\ CanStart(t)
  /\ Begin(t)
  /\ Goto(t, "aload_clone", slot)
  /\ UNCHANGED <<heap, slot, nAlloc, nRelease, rets, uaf, arc, held>>
  /\ ArcConcFrame

\* AtomicArcValue::load: .as_ref().map(Arc::clone) on the pointer read
\* before; if the box was released meanwhile the Arc is read from freed
\* memory: whatever payload it names gets its count raised, freed or not
AavLoadClone(t) ==
  LET p == tptr[t]
  IN /\ pc[t] = "aload_clone"
     /\ IF p = Null
          THEN Return(t, None) /\ UNCHANGED <<arc, held, uaf>>
          ELSE IF heap[p].st = "live"
            THEN /\ arc' = ArcClone(arc, heap[p].val)
                 /\ held' = [held EXCEPT ![heap[p].val] = @ + 1]
                 /\ Return(t, Some(heap[p].val))
                 /\ UNCHANGED uaf
            ELSE /\ \E q \in {r \in Payloads : arc[r].st # "unalloc"} :
                      /\ arc' = ArcClone(arc, q)
                      /\ held' = [held EXCEPT ![q] = @ + 1]
                      /\ Return(t, Some(q))
                 /\ uaf' = TRUE
     /\ UNCHANGED <<heap, slot, nAlloc, nRelease>>
     /\ ArcConcFrame

\* AtomicArcValue::store: self.0.store(Arc::new(val), order), up to the swap
AavStoreBegin(t, v) ==
  /\ CanStart(t)
  /\ Begin(t)
  /\ arc' = ArcNew(arc, NewArc, v)
  /\ heap' = BoxNew(heap, NewAddr, NewArc)
  /\ nAlloc' = nAlloc + 1
  /\ slot' = NewAddr
  /\ Goto(t, "astore_free", slot)
  /\ UNCHANGED <<nRelease, rets, uaf, held>>
  /\ ArcConcFrame

\* AtomicValue::store: if !ptr.is_null() { let _ = Box::from_raw(ptr) },
\* which drops the Arc in the box
AavStoreFree(t) ==
  LET p == tptr[t]
  IN /\ pc[t] = "astore_free"
     /\ IF p # Null
          THEN /\ heap' = BoxDrop(heap, p)
               /\ nRelease' = nRelease + 1
               /\ arc' = ArcDrop(arc, heap[p].val)
          ELSE UNCHANGED <<heap, nRelease, arc>>
     /\ Return(t, Unit)
     /\ UNCHANGED <<slot, nAlloc, uaf, held>>
     /\ ArcConcFrame

\* a thread drops a handle it loaded
AavRelease(p) ==
  /\ held[p] > 0
  /\ arc[p].strong > 0
  /\ arc' = ArcDrop(arc, p)
  /\ held' = [held EXCEPT ![p] = @ - 1]
  /\ UNCHANGED <<heap, slot, nAlloc, nRelease, pc, tptr, rets, calls, uaf>>
  /\ ArcConcFrame

NextArcConc ==
  \/ \E t \in Threads :
       \/ AavLoadBegin(t)
       \/ AavLoadClone(t)
       \/ \E v \in Values : AavStoreBegin(t, v)
       \/ AavStoreFree(t)
  \/ \E p \in Payloads : AavRelease(p)

SpecArcConc == InitArcConc /\ [][NextArcConc]_vars

\* the payloads a load in progress is about to clone a handle to
BeingCloned == {heap[tptr[t]].val : t \in {u \in Threads : pc[u] = "aload_clone" /\ tptr[u] # Null}}

\* C14: loads running concurrently with a store get valid handles: every
\* handle handed out points to a live payload, a payload is freed only when
\* no box holds it, no loaded handle to it is left and no load is still
\* cloning it, and no load reads a released box.
C14_ArcLoadSafe ==
  /\ uaf = FALSE
  /\ \A p \in Payloads : held[p] > 0 => arc[p].st = "live"
  /\ \A p \in Payloads :
       arc[p].st = "freed" => (InBoxes(heap, p) = 0 /\ held[p] = 0 /\ p \notin BeingCloned)

\* ================================================================= SpecNE
\* Threads share one NEAtomicValue or one NEAtomicArcValue.  Their calls
\* forward to the unchecked calls of the wrapped container, which use the
\* pointer they got from the slot without a null test.

\* thread t can start a call on the non-empty container
NeCanStart(t) ==
  /\ phase = "alive"
  /\ pc[t] = "idle"
  /\ Cardinality({c \in Threads \X (1..MaxNeCalls) : c[2] <= calls[c[1]]}) < MaxNeCalls

\* a T or an Arc<T> returned as it is, not in an Option
Just(v) == [tag |-> "Value", val |-> v]

\* a null pointer was dereferenced, or handed to Box::from_raw
Fault == [tag |-> "Fault", val |-> 0]

\* NEAtomicValue::new(val), and default() as new(T::default())
InitNeValue ==
  \E v \in Values :
    /\ heap = BoxNew([a \in Addrs |-> Unalloc], 1, v)
    /\ slot = 1
    /\ nAlloc = 1
    /\ nRelease = 0
    /\ phase = "alive"
    /\ hist = <<Rec("ne_new", v, Unit)>>
    /\ ThreadsIdle

\* NEAtomicArcValue::new(val), from_arc(Arc::new(val)) and default()
InitNeArc ==
  \E v \in Values :
    /\ heap = BoxNew([a \in Addrs |-> Unalloc], 1, 1)
    /\ slot = 1
    /\ nAlloc = 1
    /\ nRelease = 0
    /\ phase = "alive"
    /\ hist = <<Rec("nea_new", v, Unit)>>
    /\ pc = [t \in Threads |-> "idle"]
    /\ tptr = [t \in Threads |-> Null]
    /\ rets = [t \in Threads |-> <<>>]
    /\ calls = [t \in Threads |-> 0]
    /\ uaf = FALSE
    /\ ord = "none"
    /\ twin = NoTwin
    /\ pool = NoPool
    /\ tp = NoTp
    /\ app = NoApp
    /\ arc = ArcNew([p \in Payloads |-> NoArc], 1, v)
    /\ held = [p \in Payloads |-> 0]

InitNE == InitNeValue \/ InitNeArc

\* which of the two containers this is
IsNeValue == hist[1].op = "ne_new"
IsNeArc == hist[1].op = "nea_new"

\* thread t stops in a fault, and the process with it
Crash(t) ==
  /\ rets' = [rets EXCEPT ![t] = Append(@, Fault)]
  /\ phase' = "faulted"
  /\ UNCHANGED <<pc, tptr, calls>>

NeFrame == UNCHANGED <<hist, ord, twin, pool, tp, app>>

\* NEAtomicValue::load -> load_unchecked: self.0.load(order)
NeLoadBegin(t) ==
  /\ IsNeValue /\ NeCanStart(t) /\ Begin(t)
  /\ Goto(t, "ne_load_clone", slot)
  /\ UNCHANGED <<heap, slot, nAlloc, nRelease, rets, uaf, phase, arc, held>>
  /\ NeFrame

\* load_unchecked: (*ptr).clone()
NeLoadClone(t) ==
  LET p == tptr[t]
  IN /\ phase = "alive" /\ pc[t] = "ne_load_clone"
     /\ IF p = Null
          THEN Crash(t) /\ UNCHANGED uaf
          ELSE IF heap[p].st = "live"
            THEN Return(t, Just(heap[p].val)) /\ UNCHANGED <<uaf, phase>>
            ELSE (\E v \in Values : Return(t, Just(v))) /\ uaf' = TRUE /\ UNCHANGED phase
     /\ UNCHANGED <<heap, slot, nAlloc, nRelease, arc, held>>
     /\ NeFrame

\* NEAtomicValue::load_copied -> load_copied_unchecked: self.0.load(order)
NeLoadCopiedBegin(t) ==
  /\ IsNeValue /\ NeCanStart(t) /\ Begin(t)
  /\ Goto(t, "ne_load_copy", slot)
  /\ UNCHANGED <<heap, slot, nAlloc, nRelease, rets, uaf, phase, arc, held>>
  /\ NeFrame

\* load_copied_unchecked: *ptr
NeLoadCopiedCopy(t) ==
  LET p == tptr[t]
  IN /\ phase = "alive" /\ pc[t] = "ne_load_copy"
     /\ IF p = Null
          THEN Crash(t) /\ UNCHANGED uaf
          ELSE IF heap[p].st = "live"
            THEN Return(t, Just(heap[p].val)) /\ UNCHANGED <<uaf, phase>>
            ELSE (\E v \in Values : Return(t, Just(v))) /\ uaf' = TRUE /\ UNCHANGED phase
     /\ UNCHANGED <<heap, slot, nAlloc, nRelease, arc, held>>
     /\ NeFrame

\* NEAtomicValue::store -> store_unchecked: self.0.swap(Box::into_raw(..))
NeStoreBegin(t, v) ==
  /\ IsNeValue /\ NeCanStart(t) /\ Begin(t)
  /\ heap' = BoxNew(heap, NewAddr, v)
  /\ nAlloc' = nAlloc + 1
  /\ slot' = NewAddr
  /\ Goto(t, "ne_store_free", slot)
  /\ UNCHANGED <<nRelease, rets, uaf, phase, arc, held>>
  /\ NeFrame

\* store_unchecked: let _ = Box::from_raw(ptr), with no null test
NeStoreFree(t) ==
  LET p == tptr[t]
  IN /\ phase = "alive" /\ pc[t] = "ne_store_free"
     /\ IF p = Null
          THEN Crash(t) /\ UNCHANGED <<heap, nRelease>>
          ELSE /\ heap' = BoxDrop(heap, p)
               /\ nRelease' = nRelease + 1
               /\ Return(t, Unit)
               /\ UNCHANGED phase
     /\ UNCHANGED <<slot, nAlloc, uaf, arc, held>>
     /\ NeFrame

\* swap implemented on take_unchecked: null is swapped in
NeSwapBegin_Take(t, v) ==
  /\ IsNeValue /\ NeCanStart(t) /\ Begin(t)
  /\ slot' = Null
  /\ Goto(t, "ne_swap_move", slot)
  /\ UNCHANGED <<heap, nAlloc, nRelease, rets, uaf, phase, arc, held>>
  /\ NeFrame

\* NEAtomicValue::swap -> swap_unchecked: self.0.swap(Box::into_raw(..))
NeSwapBegin(t, v) ==
  /\ IsNeValue /\ NeCanStart(t) /\ Begin(t)
  /\ heap' = BoxNew(heap, NewAddr, v)
  /\ nAlloc' = nAlloc + 1
  /\ slot' = NewAddr
  /\ Goto(t, "ne_swap_move", slot)
  /\ UNCHANGED <<nRelease, rets, uaf, phase, arc, held>>
  /\ NeFrame

\* swap_unchecked: *Box::from_raw(ptr), with no null test
NeSwapMove(t) ==
  LET p == tptr[t]
  IN /\ phase = "alive" /\ pc[t] = "ne_swap_move"
     /\ IF p = Null
          THEN Crash(t) /\ UNCHANGED <<heap, nRelease>>
          ELSE /\ heap' = BoxInto(heap, p)
               /\ nRelease' = nRelease + 1
               /\ Return(t, Just(heap[p].val))
               /\ UNCHANGED phase
     /\ UNCHANGED <<slot, nAlloc, uaf, arc, held>>
     /\ NeFrame

\* NEAtomicArcValue::load -> AtomicArcValue::load_unchecked: self.0 .0.load(order)
NeaLoadBegin(t) ==
  /\ IsNeArc /\ NeCanStart(t) /\ Begin(t)
  /\ Goto(t, "nea_load_clone", slot)
  /\ UNCHANGED <<heap, slot, nAlloc, nRelease, rets, uaf, phase, arc, held>>
  /\ NeFrame

\* AtomicArcValue::load_unchecked: Arc::clone(&*ptr)
NeaLoadClone(t) ==
  LET p == tptr[t]
  IN /\ phase = "alive" /\ pc[t] = "nea_load_clone"
     /\ IF p = Null
          THEN Crash(t) /\ UNCHANGED <<uaf, arc, held>>
          ELSE IF heap[p].st = "live"
            THEN /\ arc' = ArcClone(arc, heap[p].val)
                 /\ held' = [held EXCEPT ![heap[p].val] = @ + 1]
                 /\ Return(t, Just(heap[p].val))
                 /\ UNCHANGED <<uaf, phase>>
            ELSE /\ \E q \in {r \in Payloads : arc[r].st # "unalloc"} :
                      /\ arc' = ArcClone(arc, q)
                      /\ held' = [held EXCEPT ![q] = @ + 1]
                      /\ Return(t, Just(q))
                 /\ uaf' = TRUE
                 /\ UNCHANGED phase
     /\ UNCHANGED <<heap, slot, nAlloc, nRelease>>
     /\ NeFrame

\* NEAtomicArcValue::store -> store_unchecked(Arc::new(val)): the swap
NeaStoreBegin(t, v) ==
  /\ IsNeArc /\ NeCanStart(t) /\ Begin(t)
  /\ arc' = ArcNew(arc, NewArc, v)
  /\ heap' = BoxNew(heap, NewAddr, NewArc)
  /\ nAlloc' = nAlloc + 1
  /\ slot' = NewAddr
  /\ Goto(t, "nea_store_free", slot)
  /\ UNCHANGED <<nRelease, rets, uaf, phase, held>>
  /\ NeFrame

\* NEAtomicArcValue::store_arc -> store_arc_unchecked(val): the swap; the
\* thread passes a handle it holds
NeaStoreArcBegin(t, p) ==
  /\ IsNeArc /\ NeCanStart(t) /\ Begin(t)
  /\ held[p] > 0
  /\ held' = [held EXCEPT ![p] = @ - 1]
  /\ heap' = BoxNew(heap, NewAddr, p)
  /\ nAlloc' = nAlloc + 1
  /\ slot' = NewAddr
  /\ Goto(t, "nea_store_free", slot)
  /\ UNCHANGED <<nRelease, rets, uaf, phase, arc>>
  /\ NeFrame

\* AtomicValue::store_unchecked on Arc<T>: let _ = Box::from_raw(ptr)
NeaStoreFree(t) ==
  LET p == tptr[t]
  IN /\ phase = "alive" /\ pc[t] = "nea_store_free"
     /\ IF p = Null
          THEN Crash(t) /\ UNCHANGED <<heap, nRelease, arc>>
          ELSE /\ heap' = BoxDrop(heap, p)
               /\ nRelease' = nRelease + 1
               /\ arc' = IF arc[heap[p].val].strong > 0 THEN ArcDrop(arc, heap[p].val) ELSE arc
               /\ Return(t, Unit)
               /\ UNCHANGED phase
     /\ UNCHANGED <<slot, nAlloc, uaf, held>>
     /\ NeFrame

\* NEAtomicArcValue::swap -> swap_unchecked(Arc::new(val)): the swap
NeaSwapBegin(t, v) ==
  /\ IsNeArc /\ NeCanStart(t) /\ Begin(t)
  /\ arc' = ArcNew(arc, NewArc, v)
  /\ heap' = BoxNew(heap, NewAddr, NewArc)
  /\ nAlloc' = nAlloc + 1
  /\ slot' = NewAddr
  /\ Goto(t, "nea_swap_move", slot)
  /\ UNCHANGED <<nRelease, rets, uaf, phase, held>>
  /\ NeFrame

\* NEAtomicArcValue::swap_arc -> swap_arc_unchecked(val): the swap
NeaSwapArcBegin(t, p) ==
  /\ IsNeArc /\ NeCanStart(t) /\ Begin(t)
  /\ held[p] > 0
  /\ held' = [held EXCEPT ![p] = @ - 1]
  /\ heap' = BoxNew(heap, NewAddr, p)
  /\ nAlloc' = nAlloc + 1
  /\ slot' = NewAddr
  /\ Goto(t, "nea_swap_move", slot)
  /\ UNCHANGED <<nRelease, rets, uaf, phase, arc>>
  /\ NeFrame

\* AtomicValue::swap_unchecked on Arc<T>: *Box::from_raw(ptr)
NeaSwapMove(t) ==
  LET p == tptr[t]
  IN /\ phase = "alive" /\ pc[t] = "nea_swap_move"
     /\ IF p = Null
          THEN Crash(t) /\ UNCHANGED <<heap, nRelease, held>>
          ELSE /\ heap' = BoxInto(heap, p)
               /\ nRelease' = nRelease + 1
               /\ held' = [held EXCEPT ![heap[p].val] = @ + 1]
               /\ Return(t, Just(heap[p].val))
               /\ UNCHANGED phase
     /\ UNCHANGED <<slot, nAlloc, uaf, arc>>
     /\ NeFrame

NextNE ==
  \E t \in Threads :
    \/ NeLoadBegin(t)
    \/ NeLoadClone(t)
    \/ NeLoadCopiedBegin(t)
    \/ NeLoadCopiedCopy(t)
    \/ \E v \in Values : NeStoreBegin(t, v)
    \/ NeStoreFree(t)
    \/ \E v \in Values : NeSwapBegin(t, v)
    \/ NeSwapMove(t)
    \/ NeaLoadBegin(t)
    \/ NeaLoadClone(t)
    \/ \E v \in Values : NeaStoreBegin(t, v)
    \/ \E p \in Payloads : NeaStoreArcBegin(t, p)
    \/ NeaStoreFree(t)
    \/ \E v \in Values : NeaSwapBegin(t, v)
    \/ \E p \in Payloads : NeaSwapArcBegin(t, p)
    \/ NeaSwapMove(t)

SpecNE == InitNE /\ [][NextNE]_vars

\* C17: the slot of a NEAtomicValue or NEAtomicArcValue is non-null in every
\* reachable state, under every interleaving of load, load_copied, store,
\* store_arc, swap and swap_arc; so no call ever gets a null pointer.
C17_NeverNull ==
  /\ slot # Null
  /\ phase = "alive"
  /\ \A t \in Threads : pc[t] # "idle" => tptr[t] # Null

\* both threads are inside a call, a store and a swap, on a slot that has
\* been replaced twice
C17_Witness ==
  /\ slot = 3
  /\ \E t \in Threads : pc[t] \in {"ne_store_free", "nea_store_free"}
  /\ \E t \in Threads : pc[t] \in {"ne_swap_move", "nea_swap_move"}

\* ================================================================ SpecRef
\* A container as one record, so that two containers can be given the same
\* calls: c.heap, c.slot, c.nAlloc, c.nRelease as above, c.arc and c.held for
\* a container of Arc<T> (c.arcs), and c.ret, the result of its last call.

\* the variables of the single container of the sections above: not used
NoContainer ==
  /\ heap = [a \in Addrs |-> Unalloc]
  /\ slot = Null
  /\ nAlloc = 0
  /\ nRelease = 0
  /\ phase = "none"
  /\ hist = <<>>
  /\ pc = [t \in Threads |-> "idle"]
  /\ tptr = [t \in Threads |-> Null]
  /\ rets = [t \in Threads |-> <<>>]
  /\ calls = [t \in Threads |-> 0]
  /\ uaf = FALSE
  /\ ord = "none"
  /\ arc = [p \in Payloads |-> NoArc]
  /\ held = [p \in Payloads |-> 0]

\* AtomicValue::empty(): Self(AtomicPtr::new(0 as _))
av_empty ==
  [heap |-> [a \in Addrs |-> Unalloc], slot |-> Null, nAlloc |-> 0,
   nRelease |-> 0, arcs |-> FALSE, arc |-> [p \in Payloads |-> NoArc],
   held |-> [p \in Payloads |-> 0], ret |-> Unit]

\* AtomicValue::new(val): Self(AtomicPtr::new(Box::into_raw(Box::new(val))))
av_new(v) ==
  [av_empty EXCEPT !.heap = BoxNew(@, 1, v), !.slot = 1, !.nAlloc = 1]

\* AtomicArcValue::new(val): Self(AtomicValue::new(Arc::new(val)))
aav_new(v) ==
  [av_new(1) EXCEPT !.arcs = TRUE, !.arc = ArcNew(@, 1, v)]

\* the id of the payload the next Arc::new in container c creates
NextPayload(c) == Cardinality({p \in Payloads : c.arc[p].st # "unalloc"}) + 1

\* T::clone of the value x in a box: for Arc<T>, one more handle
CloneT(c, x) == IF c.arcs THEN [c EXCEPT !.arc = ArcClone(@, x)] ELSE c

\* drop of the value x of a box: for Arc<T>, one handle less
DropT(c, x) == IF c.arcs THEN [c EXCEPT !.arc = ArcDrop(@, x)] ELSE c

\* let _ = Box::from_raw(ptr): the box is freed and its value dropped
Freed(c, ptr) ==
  DropT([c EXCEPT !.heap = BoxDrop(@, ptr), !.nRelease = @ + 1], c.heap[ptr].val)

\* *Box::from_raw(ptr): the box is freed, its value moved to the caller
Moved(c, ptr) == [c EXCEPT !.heap = BoxInto(@, ptr), !.nRelease = @ + 1]

\* self.0.swap(Box::into_raw(Box::new(val)), order)
Swapped(c, v) ==
  [c EXCEPT !.heap = BoxNew(@, c.nAlloc + 1, v), !.nAlloc = @ + 1,
            !.slot = c.nAlloc + 1]

\* AtomicValue::load: self.0.load(order).as_ref().cloned()
av_load(c) ==
  LET ptr == c.slot
  IN IF IsNull(ptr)
       THEN [c EXCEPT !.ret = None]
       ELSE [CloneT(c, c.heap[ptr].val) EXCEPT !.ret = Some(c.heap[ptr].val)]

\* AtomicValue::load_unchecked: (*self.0.load(order)).clone()
av_load_unchecked(c) ==
  LET ptr == c.slot
  IN IF IsNull(ptr)
       THEN [c EXCEPT !.ret = Fault]
       ELSE [CloneT(c, c.heap[ptr].val) EXCEPT !.ret = Just(c.heap[ptr].val)]

\* AtomicValue::store: the swap, then the old box freed if it is not null
av_store(c, v) ==
  LET ptr == c.slot
      c1 == [Swapped(c, v) EXCEPT !.ret = Unit]
  IN IF ~IsNull(ptr) THEN Freed(c1, ptr) ELSE c1

\* store with the null test the wrong way round
av_store_unchecked_NullTest(c, v) ==
  LET ptr == c.slot
      c1 == [Swapped(c, v) EXCEPT !.ret = Unit]
  IN IF ~IsNull(ptr) THEN Freed(c1, ptr) ELSE c1

\* AtomicValue::store_unchecked: let _ = Box::from_raw(self.0.swap(..))
av_store_unchecked(c, v) ==
  LET ptr == c.slot
      c1 == [Swapped(c, v) EXCEPT !.ret = Unit]
  IN IF IsNull(ptr) THEN [c1 EXCEPT !.ret = Fault] ELSE Freed(c1, ptr)

\* AtomicValue::swap: the swap, then Some(*Box::from_raw(ptr)) or None
av_swap(c, v) ==
  LET ptr == c.slot
      c1 == Swapped(c, v)
  IN IF ~IsNull(ptr)
       THEN [Moved(c1, ptr) EXCEPT !.ret = Some(c.heap[ptr].val)]
       ELSE [c1 EXCEPT !.ret = None]

\* AtomicValue::swap_unchecked: *Box::from_raw(self.0.swap(..))
av_swap_unchecked(c, v) ==
  LET ptr == c.slot
      c1 == Swapped(c, v)
  IN IF IsNull(ptr)
       THEN [c1 EXCEPT !.ret = Fault]
       ELSE [Moved(c1, ptr) EXCEPT !.ret = Just(c.heap[ptr].val)]

\* AtomicValue::take: self.0.swap(0 as _, order), then Some(..) or None
av_take(c) ==
  LET ptr == c.slot
      c1 == [c EXCEPT !.slot = Null]
  IN IF ~IsNull(ptr)
       THEN [Moved(c1, ptr) EXCEPT !.ret = Some(c.heap[ptr].val)]
       ELSE [c1 EXCEPT !.ret = None]

\* AtomicValue::take_unchecked: *Box::from_raw(self.0.swap(0 as _, order))
av_take_unchecked(c) ==
  LET ptr == c.slot
      c1 == [c EXCEPT !.slot = Null]
  IN IF IsNull(ptr)
       THEN [c1 EXCEPT !.ret = Fault]
       ELSE [Moved(c1, ptr) EXCEPT !.ret = Just(c.heap[ptr].val)]

\* the caller keeps the Arc handle a call returned
Kept(c) ==
  IF c.ret.tag \in {"Some", "Value"} THEN [c EXCEPT !.held[c.ret.val] = @ + 1] ELSE c

\* the caller passes a handle to payload p that it holds
Passed(c, p) == [c EXCEPT !.held[p] = @ - 1]

\* Arc::new(val) as the argument of a call
Made(c, v) == [c EXCEPT !.arc = ArcNew(@, NextPayload(c), v)]

\* AtomicArcValue::load: self.0.load(order)
aav_load(c) == Kept(av_load(c))

\* AtomicArcValue::load_unchecked: Arc::clone(&*self.0 .0.load(order))
aav_load_unchecked(c) ==
  LET ptr == c.slot
  IN IF IsNull(ptr)
       THEN [c EXCEPT !.ret = Fault]
       ELSE Kept([CloneT(c, c.heap[ptr].val) EXCEPT !.ret = Just(c.heap[ptr].val)])

\* AtomicArcValue::store_arc: self.0.store(val, order)
aav_store_arc(c, p) == av_store(Passed(c, p), p)

\* AtomicArcValue::store_arc_unchecked: self.0.store_unchecked(val, order)
aav_store_arc_unchecked(c, p) == av_store_unchecked(Passed(c, p), p)

\* AtomicArcValue::store: self.0.store(Arc::new(val), order)
aav_store(c, v) == av_store(Made(c, v), NextPayload(c))

\* AtomicArcValue::store_unchecked: self.0.store_unchecked(Arc::new(val), order)
aav_store_unchecked(c, v) == av_store_unchecked(Made(c, v), NextPayload(c))

\* AtomicArcValue::swap_arc: self.0.swap(val, order)
aav_swap_arc(c, p) == Kept(av_swap(Passed(c, p), p))

\* AtomicArcValue::swap_arc_unchecked: self.0.swap_unchecked(val, order)
aav_swap_arc_unchecked(c, p) == Kept(av_swap_unchecked(Passed(c, p), p))

\* AtomicArcValue::swap: self.0.swap(Arc::new(val), order)
aav_swap(c, v) == Kept(av_swap(Made(c, v), NextPayload(c)))

\* AtomicArcValue::swap_unchecked: self.0.swap_unchecked(Arc::new(val), order)
aav_swap_unchecked(c, v) == Kept(av_swap_unchecked(Made(c, v), NextPayload(c)))

\* NEAtomicValue::new(val): Self(AtomicValue::new(val))
ne_new(v) == av_new(v)

\* NEAtomicValue::load: unsafe { self.0.load_unchecked(order) }
ne_load(c) == av_load_unchecked(c)

\* NEAtomicValue::store: unsafe { self.0.store_unchecked(val, order) }
ne_store(c, v) == av_store_unchecked(c, v)

\* swap forwarding to the store
ne_swap_AsStore(c, v) == av_store_unchecked(c, v)

\* NEAtomicValue::swap: unsafe { self.0.swap_unchecked(val, order) }
ne_swap(c, v) == av_swap_unchecked(c, v)

\* NEAtomicArcValue::new(val): Self(AtomicArcValue::new(val))
nea_new(v) == aav_new(v)

\* NEAtomicArcValue::load: unsafe { self.0.load_unchecked(order) }
nea_load(c) == aav_load_unchecked(c)

\* NEAtomicArcValue::store: unsafe { self.0.store_unchecked(val, order) }
nea_store(c, v) == aav_store_unchecked(c, v)

\* NEAtomicArcValue::store_arc: unsafe { self.0.store_arc_unchecked(val, order) }
nea_store_arc(c, p) == aav_store_arc_unchecked(c, p)

\* NEAtomicArcValue::swap: unsafe { self.0.swap_unchecked(val, order) }
nea_swap(c, v) == aav_swap_unchecked(c, v)

\* NEAtomicArcValue::swap_arc: unsafe { self.0.swap_arc_unchecked(val, order) }
nea_swap_arc(c, p) == aav_swap_arc_unchecked(c, p)

\* twin.ne is a non-empty container and twin.ck a checked container of the
\* same kind, both built from the same value; every call is made on both.
InitRef ==
  /\ NoContainer
  /\ pool = NoPool
  /\ tp = NoTp
  /\ app = NoApp
  /\ \E v \in Values :
       \/ twin = [kind |-> "value", n |-> 0, op |-> "new", ne |-> ne_new(v), ck |-> av_new(v)]
       \/ twin = [kind |-> "arc", n |-> 0, op |-> "new", ne |-> nea_new(v), ck |-> aav_new(v)]

\* one more call can be made on both
RefCanCall(kind) ==
  /\ twin.kind = kind
  /\ twin.n < MaxOps
  /\ twin.ne.ret # Fault

\* the call op left the two containers as ne and ck
Both(op, ne, ck) ==
  /\ twin' = [twin EXCEPT !.n = @ + 1, !.op = op, !.ne = ne, !.ck = ck]
  /\ UNCHANGED <<heap, slot, nAlloc, nRelease, phase, hist, pc, tptr, rets, calls, uaf>>
  /\ UNCHANGED <<ord, arc, held, pool, tp, app>>

\* NEAtomicValue::load and AtomicValue::load
RefLoad ==
  RefCanCall("value") /\ Both("load", ne_load(twin.ne), av_load(twin.ck))

\* NEAtomicValue::store and AtomicValue::store
RefStore(v) ==
  RefCanCall("value") /\ Both("store", ne_store(twin.ne, v), av_store(twin.ck, v))

\* NEAtomicValue::swap and AtomicValue::swap
RefSwap(v) ==
  RefCanCall("value") /\ Both("swap", ne_swap(twin.ne, v), av_swap(twin.ck, v))

\* NEAtomicArcValue::load and AtomicArcValue::load
RefArcLoad ==
  RefCanCall("arc") /\ Both("load", nea_load(twin.ne), aav_load(twin.ck))

\* NEAtomicArcValue::store and AtomicArcValue::store
RefArcStore(v) ==
  RefCanCall("arc") /\ Both("store", nea_store(twin.ne, v), aav_store(twin.ck, v))

\* NEAtomicArcValue::store_arc and AtomicArcValue::store_arc, with a handle
\* the caller holds
RefStoreArc(p) ==
  /\ RefCanCall("arc")
  /\ twin.ne.held[p] > 0 /\ twin.ck.held[p] > 0
  /\ Both("store", nea_store_arc(twin.ne, p), aav_store_arc(twin.ck, p))

\* NEAtomicArcValue::swap and AtomicArcValue::swap
RefArcSwap(v) ==
  RefCanCall("arc") /\ Both("swap", nea_swap(twin.ne, v), aav_swap(twin.ck, v))

\* NEAtomicArcValue::swap_arc and AtomicArcValue::swap_arc, with a handle the
\* caller holds
RefSwapArc(p) ==
  /\ RefCanCall("arc")
  /\ twin.ne.held[p] > 0 /\ twin.ck.held[p] > 0
  /\ Both("swap", nea_swap_arc(twin.ne, p), aav_swap_arc(twin.ck, p))

NextRef ==
  \/ RefLoad
  \/ \E v \in Values : RefStore(v)
  \/ \E v \in Values : RefSwap(v)
  \/ RefArcLoad
  \/ \E v \in Values : RefArcStore(v)
  \/ \E p \in Payloads : RefStoreArc(p)
  \/ \E v \in Values : RefArcSwap(v)
  \/ \E p \in Payloads : RefSwapArc(p)

SpecRef == InitRef /\ [][NextRef]_vars

\* the value a result carries: the T, or for Arc<T> the T its payload holds
Carried(c) == IF c.arcs THEN c.arc[c.ret.val].val ELSE c.ret.val

\* what the slot of container c holds
Content(c) ==
  IF c.slot = Null THEN None
  ELSE IF c.arcs THEN Some(c.arc[c.heap[c.slot].val].val)
  ELSE Some(c.heap[c.slot].val)

\* C18: after any sequence of load, store and swap calls the non-empty
\* container and the checked container built from the same value have
\* returned the same value from the last call and are in the same state,
\* and the result of the non-empty container is a value, that of the checked
\* container Some of it: no load or swap reports "no value".
C18_NeRefinesChecked ==
  /\ Content(twin.ne) = Content(twin.ck)
  /\ twin.ne.slot # Null
  /\ \A f \in {"heap", "slot", "nAlloc", "nRelease", "arc", "held"} :
       twin.ne[f] = twin.ck[f]
  /\ twin.op \in {"load", "swap"} =>
       /\ twin.ne.ret.tag = "Value"
       /\ twin.ck.ret.tag = "Some"
       /\ Carried(twin.ne) = Carried(twin.ck)
       /\ twin.ne.ret.val = twin.ck.ret.val
  /\ twin.op = "store" => (twin.ne.ret = Unit /\ twin.ck.ret = Unit)

\* a third call, a swap on the container of Arc<T>, returned the Arc an
\* earlier call had stored, not the one the container was built from
C18_Witness ==
  /\ twin.kind = "arc"
  /\ twin.n >= 3
  /\ twin.op = "swap"
  /\ twin.ne.ret.tag = "Value"
  /\ twin.ne.ret.val # 1
  /\ twin.ck.ret = Some(twin.ne.ret.val)

\* ========================================================== SpecUnchecked
\* One AtomicValue, twin.ck, is given checked calls.  For each call twin.ne
\* is what the unchecked call of the same name leaves when it is made
\* instead, on the same container in the same state.  A result of Fault
\* stands for the point where behaviour becomes undefined: a null pointer is
\* dereferenced or handed to Box::from_raw.

InitUnchecked ==
  /\ NoContainer
  /\ pool = NoPool
  /\ tp = NoTp
  /\ app = NoApp
  /\ \E c \in {av_empty} \cup {av_new(v) : v \in Values} :
       twin = [kind |-> "value", n |-> 0, op |-> "new", ne |-> c, ck |-> c]

UncheckedCanCall == twin.n < MaxOps

\* AtomicValue::load, and load_unchecked in its place
UncheckedLoad ==
  /\ UncheckedCanCall
  /\ Both("load", av_load_unchecked(twin.ck), av_load(twin.ck))

\* AtomicValue::store, and store_unchecked in its place
UncheckedStore(v) ==
  /\ UncheckedCanCall
  /\ Both("store", av_store_unchecked(twin.ck, v), av_store(twin.ck, v))

\* AtomicValue::swap, and swap_unchecked in its place
UncheckedSwap(v) ==
  /\ UncheckedCanCall
  /\ Both("swap", av_swap_unchecked(twin.ck, v), av_swap(twin.ck, v))

\* AtomicValue::take, and take_unchecked in its place
UncheckedTake ==
  /\ UncheckedCanCall
  /\ Both("take", av_take_unchecked(twin.ck), av_take(twin.ck))

NextUnchecked ==
  \/ UncheckedLoad
  \/ \E v \in Values : UncheckedStore(v)
  \/ \E v \in Values : UncheckedSwap(v)
  \/ UncheckedTake

SpecUnchecked == InitUnchecked /\ [][NextUnchecked]_vars

\* C19: load_unchecked, store_unchecked, swap_unchecked and take_unchecked
\* called on an empty slot end in a fault (a null pointer is dereferenced or
\* freed) and return no value; called on a full slot they do not; the
\* checked load, store, swap and take never fault, whatever the slot holds.
C19_UncheckedFaults ==
  [][ /\ twin.ck.slot = Null => twin'.ne.ret = Fault
      /\ twin.ck.slot # Null => twin'.ne.ret # Fault
      /\ twin'.ck.ret # Fault
      /\ twin'.ck.ret.tag \in {"None", "Some", "Unit"} ]_vars

\* a take emptied the slot and the next call was a store: store_unchecked
\* has handed null to Box::from_raw, store has not
C19_Witness ==
  /\ twin.kind = "value"
  /\ twin.n >= 2
  /\ twin.op = "store"
  /\ twin.ne.ret = Fault
  /\ twin.ck.ret = Unit
  /\ twin.ck.nRelease = 1

\* =============================================================== SpecPool
\* SyncPool<T>: pool.head is the AtomicPtr `pool`, pool.nodes[a] the
\* AtomicNode at address a, pool.old[t] the head value thread t's swap
\* returned; tptr[t] is the node pointer thread t holds.  Threads push and
\* pop concurrently, each atomic instruction one step.  The k-th value pushed
\* is k.

PoolAddrs == 1..MaxAddr

NoNode == [st |-> "unalloc", value |-> 0, next |-> Null, removed |-> FALSE, gen |-> 0]

\* AtomicNode::new_ptr(value) at address a: next null, removed false; gen
\* counts the nodes that were placed at a
new_ptr(nodes, a, value) ==
  [nodes EXCEPT ![a] = [st |-> "live", value |-> value, next |-> Null,
                        removed |-> FALSE, gen |-> @.gen + 1]]

\* where the allocator can place the next node: the lowest address never
\* used, or any address whose node was freed
AllocAddrs ==
  LET fresh == {a \in PoolAddrs : pool.nodes[a].st = "unalloc"}
  IN {a \in PoolAddrs : pool.nodes[a].st = "freed"}
       \cup {a \in fresh : \A b \in fresh : a <= b}

\* SyncPool::new(new_fn) with at most cap values ever pushed: an empty list.
\* seen[t] is the gen of the node thread t read the pointer of, fails[t] the
\* failed compare-exchanges of its pop so far, aba whether a compare-exchange
\* succeeded on another node than the one whose pointer was read.
NewPool(new_fn, cap) ==
  [head |-> Null, nodes |-> [a \in PoolAddrs |-> NoNode],
   old |-> [t \in Threads |-> Null], pushed |-> 0, pops |-> 0,
   new_fn |-> new_fn, cap |-> cap,
   mode |-> [t \in Threads |-> "pop"],
   seen |-> [t \in Threads |-> 0],
   fails |-> [t \in Threads |-> 0],
   aba |-> FALSE]

\* a pool with an empty list and no factory
InitPool ==
  /\ NoContainer
  /\ twin = NoTwin
  /\ tp = NoTp
  /\ app = NoApp
  /\ pool = NewPool("none", MaxPush)

PoolFrame ==
  UNCHANGED <<heap, slot, nAlloc, nRelease, phase, hist, ord, arc, held, twin, tp, app>>

\* push_front: the node is made and swapped in as the head; its next is
\* still null
PushSwap(t) ==
  /\ pc[t] = "idle"
  /\ pool.pushed < pool.cap
  /\ \E a \in AllocAddrs :
       /\ pool' = [pool EXCEPT !.nodes = new_ptr(@, a, pool.pushed + 1),
                               !.pushed = @ + 1,
                               !.old[t] = pool.head,
                               !.head = a]
       /\ Goto(t, "push_next", a)
  /\ Begin(t)
  /\ UNCHANGED <<rets, uaf>>
  /\ PoolFrame

\* push_front that leaves the next of the new node null
PushNext_Null(t) ==
  /\ pc[t] = "push_next"
  /\ pool' = [pool EXCEPT !.old[t] = Null]
  /\ uaf' = (uaf \/ pool.nodes[tptr[t]].st # "live")
  /\ Return(t, Unit)
  /\ PoolFrame

\* push_front: (*node_ptr).next.store(<the head the swap returned>, Release)
PushNext(t) ==
  /\ pc[t] = "push_next"
  /\ pool' = [pool EXCEPT !.nodes[tptr[t]].next = pool.old[t], !.old[t] = Null]
  /\ uaf' = (uaf \/ pool.nodes[tptr[t]].st # "live")
  /\ Return(t, Unit)
  /\ PoolFrame

\* the pool once thread t's call has ended
Ended(P, t) == [P EXCEPT !.mode[t] = "pop", !.seen[t] = 0, !.fails[t] = 0]

\* pop_front: self.pool.load(Acquire) read a null head and the loop breaks:
\* pop_front returns None, and a get goes on to the factory
PopNull(t) ==
  IF pool.mode[t] = "get"
    THEN /\ pc' = [pc EXCEPT ![t] = "get_factory"]
         /\ UNCHANGED <<tptr, rets>>
         /\ pool' = pool
    ELSE /\ pc' = [pc EXCEPT ![t] = "idle"]
         /\ rets' = [rets EXCEPT ![t] = Append(@, None)]
         /\ UNCHANGED tptr
         /\ pool' = Ended(pool, t)

\* pop_front on a null head going round the loop again
PopBegin_Spins(t) ==
  /\ pc[t] = "idle"
  /\ pool.pops < MaxPop
  /\ IF pool.head = Null
       THEN /\ pc' = [pc EXCEPT ![t] = "pop_load"]
            /\ pool' = [pool EXCEPT !.pops = @ + 1]
            /\ UNCHANGED <<tptr, rets>>
       ELSE /\ Goto(t, "pop_cas", pool.head)
            /\ pool' = [pool EXCEPT !.pops = @ + 1,
                                    !.seen[t] = pool.nodes[pool.head].gen]
            /\ UNCHANGED rets
  /\ Begin(t)
  /\ UNCHANGED uaf
  /\ PoolFrame

\* pop_front is called and reads the head
PopBegin(t) ==
  /\ pc[t] = "idle"
  /\ pool.pops < MaxPop
  /\ IF pool.head = Null
       THEN /\ pc' = [pc EXCEPT ![t] = "idle"]
            /\ rets' = [rets EXCEPT ![t] = Append(@, None)]
            /\ pool' = [pool EXCEPT !.pops = @ + 1]
            /\ UNCHANGED tptr
       ELSE /\ Goto(t, "pop_cas", pool.head)
            /\ pool' = [pool EXCEPT !.pops = @ + 1,
                                    !.seen[t] = pool.nodes[pool.head].gen]
            /\ UNCHANGED rets
  /\ Begin(t)
  /\ UNCHANGED uaf
  /\ PoolFrame

\* pop_front: after spin_loop() the loop reads the head again
PopLoad(t) ==
  /\ pc[t] = "pop_load"
  /\ IF pool.head = Null
       THEN PopNull(t)
       ELSE /\ Goto(t, "pop_cas", pool.head)
            /\ pool' = [pool EXCEPT !.seen[t] = pool.nodes[pool.head].gen]
            /\ UNCHANGED rets
  /\ UNCHANGED <<calls, uaf>>
  /\ PoolFrame

\* one more failed attempt, counted up to the number of threads
Failed(n) == IF n < NThreads THEN n + 1 ELSE n

\* pop_front: the compare-exchange (weak) on (*ptr).removed that claims the
\* node: it sets the marker if it was false, and fails if the marker was set
\* or spuriously; on a freed node either outcome can follow
PopCas(t) ==
  LET n == pool.nodes[tptr[t]]
  IN /\ pc[t] = "pop_cas"
     /\ \/ /\ n.st # "live" \/ ~n.removed
           /\ pool' = [pool EXCEPT !.nodes[tptr[t]].removed = TRUE,
                                   !.aba = @ \/ (n.st = "live" /\ n.gen # pool.seen[t])]
           /\ pc' = [pc EXCEPT ![t] = "pop_take"]
        \/ /\ pool' = [pool EXCEPT !.fails[t] = Failed(@)]
           /\ pc' = [pc EXCEPT ![t] = "pop_load"]
     /\ uaf' = (uaf \/ n.st # "live")
     /\ UNCHANGED <<tptr, rets, calls>>
     /\ PoolFrame

\* the list without the node at ptr: whatever points to it, the head or the
\* next of a live node, is made to point to its next
Unlinked(P, ptr) ==
  LET nxt == P.nodes[ptr].next
  IN [P EXCEPT !.head = IF @ = ptr THEN nxt ELSE @,
               !.nodes = [a \in PoolAddrs |->
                            IF a # ptr /\ @[a].st = "live" /\ @[a].next = ptr
                              THEN [@[a] EXCEPT !.next = nxt]
                              ELSE @[a]]]

\* pop_front, the part left open in the source: the thread that claimed the
\* node unlinks it, takes its value and frees it
PopTake(t) ==
  LET n == pool.nodes[tptr[t]]
  IN /\ pc[t] = "pop_take"
     /\ pool' = [Ended(Unlinked(pool, tptr[t]), t) EXCEPT !.nodes[tptr[t]].st = "freed"]
     /\ uaf' = (uaf \/ n.st # "live")
     /\ Return(t, Some(n.value))
     /\ PoolFrame

NextPool ==
  \E t \in Threads :
    \/ PushSwap(t)
    \/ PushNext(t)
    \/ PopBegin(t)
    \/ PopLoad(t)
    \/ PopCas(t)
    \/ PopTake(t)

SpecPool == InitPool /\ [][NextPool]_vars

RECURSIVE Chain(_, _)
\* the nodes reached from pointer p by following next, at most n of them
Chain(p, n) ==
  IF p = Null \/ n = 0 \/ pool.nodes[p].st # "live"
    THEN <<>>
    ELSE <<p>> \o Chain(pool.nodes[p].next, n - 1)

\* the values in the list, from the head on
InPool ==
  LET c == Chain(pool.head, MaxAddr)
  IN [i \in 1..Len(c) |-> pool.nodes[c[i]].value]

\* how often value k is in the list
TimesInPool(k) == Cardinality({i \in 1..Len(InPool) : InPool[i] = k})

\* how often a pop has returned value k
TimesPopped(k) ==
  Cardinality({c \in Threads \X (1..(MaxPush + MaxPop)) :
                 c[2] <= Len(rets[c[1]]) /\ rets[c[1]][c[2]] = Some(k)})

\* C20: whenever no call is in progress, each value pushed so far has either
\* been returned by exactly one pop or is in the list exactly once, where a
\* later pop finds it: no value is lost and none comes back twice.
C20_ExactlyOnce ==
  (\A t \in Threads : pc[t] = "idle") =>
    \A k \in 1..pool.pushed : TimesPopped(k) + TimesInPool(k) = 1

\* C21: of the threads that read the same head node only the one whose
\* compare-exchange on the removed marker succeeded goes on to take the value
\* and unlink the node: no two threads hold the same node as theirs to take,
\* and no value is returned by two pops.
C21_SingleClaim ==
  /\ \A t, u \in Threads :
       (t # u /\ pc[t] = "pop_take" /\ pc[u] = "pop_take") => tptr[t] # tptr[u]
  /\ \A k \in 1..pool.pushed : TimesPopped(k) <= 1

\* thread t's compare-exchange claims a node that is live and not removed
Claims(t) == PopCas(t) /\ pool.nodes[tptr[t]].st = "live" /\ pc'[t] = "pop_take"

\* fair scheduling: a thread inside a call keeps taking steps, and a
\* compare-exchange (weak) that can succeed again and again does not fail
\* spuriously for ever
FairPool ==
  \A t \in Threads :
    /\ WF_vars(PushNext(t))
    /\ WF_vars(PopLoad(t))
    /\ WF_vars(PopCas(t))
    /\ WF_vars(PopTake(t))
    /\ SF_vars(Claims(t))

SpecPoolFair == SpecPool /\ FairPool

\* C22: under fair scheduling every pop_front call returns, and while it
\* runs its compare-exchange has failed at most once for each of the other
\* threads, which are all the poppers that can contend with it.
C22_PopTerminates ==
  /\ [](\A t \in Threads : pool.fails[t] < NThreads)
  /\ \A t \in Threads : (pc[t] \in {"pop_load", "pop_cas", "pop_take"}) ~> (pc[t] = "idle")

\* C24: while pushes and pops run concurrently no thread reads or writes a
\* node that has been freed, and no compare-exchange succeeds through a
\* pointer loaded before the node's address was freed and allocated again
\* (no ABA).
C24_NoStaleAccess == ~uaf /\ ~pool.aba

\* the nodes that are in the list of pool P: the head and what live nodes
\* point to
Linked(P) ==
  {P.head} \cup {P.nodes[b].next : b \in {c \in PoolAddrs : P.nodes[c].st = "live"}}

\* C31: a pool node only moves forward through in-pool, removed, freed: it
\* is created as the head with its removed marker false, the marker once
\* set is never cleared, a node is claimed by at most one popper, it is
\* freed only after it was marked removed, and no freed node is linked in
\* the list.
C31_NodeStates ==
  [][\A a \in PoolAddrs :
       LET n == pool.nodes[a]
           m == pool'.nodes[a]
       IN /\ (n.st # "live" /\ m.st = "live") => (~m.removed /\ pool'.head = a)
          /\ (n.st = "live" /\ m.st = "live" /\ n.removed) => m.removed
          /\ (n.st = "live" /\ m.st # "live") => (m.st = "freed" /\ n.removed)
          /\ Cardinality({t \in Threads : pc'[t] = "pop_take" /\ tptr'[t] = a}) <= 1
          /\ (m.st = "freed") => a \notin Linked(pool')]_vars

(***************************************************************************)
(* SpecPush: threads that only push, onto an empty list or onto a list     *)
(* that holds one node already.                                            *)
(***************************************************************************)

\* the pool after one push_front on a new pool
OnePushed(P) ==
  [P EXCEPT !.nodes = new_ptr(@, 1, 1), !.pushed = 1, !.head = 1]

InitPush ==
  /\ NoContainer
  /\ twin = NoTwin
  /\ tp = NoTp
  /\ app = NoApp
  /\ \E P \in {NewPool("none", NThreads * MaxPush)} : pool \in {P, OnePushed(P)}

NextPush ==
  \E t \in Threads :
    \/ PushSwap(t)
    \/ PushNext(t)

SpecPush == InitPush /\ [][NextPush]_vars

\* the live nodes
LiveNodes == {a \in PoolAddrs : pool.nodes[a].st = "live"}

\* every live node is reached from the head exactly once
AllLinked ==
  LET c == Chain(pool.head, MaxAddr)
  IN /\ \A a \in LiveNodes : Cardinality({i \in 1..Len(c) : c[i] = a}) = 1
     /\ Len(c) = Cardinality(LiveNodes)
     /\ Len(c) = pool.pushed

\* C30: a push makes its node the head with one atomic swap and then sets
\* the node's next to the head the swap returned; whenever the pushes
\* started so far have all completed, every node pushed and every node that
\* was in the pool before is reached from the head exactly once.
C30_PushSplices ==
  /\ [][\A t \in Threads :
          /\ (pc[t] = "idle" /\ pc'[t] = "push_next")
               => /\ pool'.head = tptr'[t]
                  /\ pool'.old[t] = pool.head
                  /\ tptr'[t] \notin LiveNodes
                  /\ \A a \in LiveNodes : pool'.nodes[a] = pool.nodes[a]
          /\ (pc[t] = "push_next" /\ pc'[t] = "idle")
               => /\ pool'.nodes[tptr[t]].next = pool.old[t]
                  /\ pool'.head = pool.head]_vars
  /\ []((\A t \in Threads : pc[t] = "idle") => AllLinked)

\* every thread has pushed onto a list that held a node, and all pushes
\* have completed
C30_Witness ==
  /\ pool.new_fn = "none"
  /\ \A t \in Threads : pc[t] = "idle" /\ calls[t] >= 1
  /\ pool.pushed = 1 + NThreads
  /\ \E a \in LiveNodes : a > 1 /\ pool.nodes[a].next = 1 /\ pool.head # a
  /\ AllLinked

(***************************************************************************)
(* SpecGet: SyncPool::get beside push_front and pop_front.  The bodies of  *)
(* new, get and put are empty in the source; get is pop_front followed by  *)
(* the factory new_fn when pop_front found nothing.                        *)
(***************************************************************************)

\* what the factory given to SyncPool::new does: there is none, it makes a
\* value, or it returns None
Factories == {"none", "some", "fails"}

\* new_fn(): the result of the factory; the value it makes is 0, pushed
\* values are 1, 2, ...
new_fn(f) == IF f = "some" THEN Some(0) ELSE None

InitGet ==
  /\ NoContainer
  /\ twin = NoTwin
  /\ tp = NoTp
  /\ app = NoApp
  /\ \E f \in Factories : pool = NewPool(f, 1)

\* get is called and calls pop_front
GetBegin(t) ==
  /\ pc[t] = "idle"
  /\ pool.pops < MaxPop
  /\ pc' = [pc EXCEPT ![t] = "pop_load"]
  /\ pool' = [pool EXCEPT !.pops = @ + 1, !.mode[t] = "get"]
  /\ Begin(t)
  /\ UNCHANGED <<tptr, rets, uaf>>
  /\ PoolFrame

\* get: pop_front found nothing and get returns what the factory returns
GetFactory(t) ==
  /\ pc[t] = "get_factory"
  /\ pool' = Ended(pool, t)
  /\ Return(t, new_fn(pool.new_fn))
  /\ UNCHANGED uaf
  /\ PoolFrame

NextGet ==
  \E t \in Threads :
    \/ PushSwap(t)
    \/ PushNext(t)
    \/ PopBegin(t)
    \/ PopLoad(t)
    \/ PopCas(t)
    \/ PopTake(t)
    \/ GetBegin(t)
    \/ GetFactory(t)

SpecGet == InitGet /\ [][NextGet]_vars

\* thread t calls pop_front in this step
PopCalled(t) ==
  /\ calls'[t] = calls[t] + 1
  /\ pool'.pops = pool.pops + 1
  /\ pool'.mode[t] = "pop"

TpChans == 1..MaxRun
TpJobs == 1..(MaxTpCalls + 1)
TpWorkers == 1..MaxWorkers

NoChan == [st |-> "none", queue |-> <<>>, mutex |-> 0, closer |-> "none",
           w |-> [w \in TpWorkers |-> "none"], job |-> [w \in TpWorkers |-> 0]]

\* ThreadPool::new(n_threads): tx: RwLock::new(None)
tp_new(n) ==
  [kind |-> "tp", n_threads |-> n, tx |-> 0, nchan |-> 0, jobs |-> 0,
   limit |-> MaxTpCalls,
   chan |-> [c \in TpChans |-> NoChan],
   ran |-> [j \in TpJobs |-> 0],
   log |-> <<>>]

InitTp ==
  /\ NoContainer
  /\ twin = NoTwin
  /\ pool = NoPool
  /\ app = NoApp
  /\ \E n \in TpWorkers : tp = tp_new(n)

TpFrame ==
  /\ UNCHANGED <<heap, slot, nAlloc, nRelease, phase, hist, pc, tptr, rets, calls, uaf>>
  /\ UNCHANGED <<ord, arc, held, twin, pool, app>>

TpCanCall == Len(tp.log) < tp.limit

\* the log once the call named op has returned r
Logged(op, r) == Append(tp.log, [op |-> op, ret |-> r])

\* the channels once the sender held in tx was dropped by the call named by
\* closer: its channel has no sender left
SenderDropped(T, closer) ==
  IF T.tx = 0
    THEN T.chan
    ELSE [T.chan EXCEPT ![T.tx].st = "closed", ![T.tx].closer = closer]

\* run: channel(), *self.tx.write().unwrap() = Some(tx), and n_threads
\* workers are spawned, all sharing the receiver behind one mutex
TpRun ==
  /\ TpCanCall
  /\ tp.nchan < MaxRun
  /\ LET c == tp.nchan + 1
     IN tp' = [tp EXCEPT !.nchan = c,
                         !.tx = c,
                         !.chan = [SenderDropped(tp, "run") EXCEPT ![c] =
                                     [NoChan EXCEPT !.st = "open",
                                                    !.w = [w \in TpWorkers |->
                                                             IF w <= tp.n_threads THEN "lock" ELSE "none"]]],
                         !.log = Logged("run", Unit)]
  /\ TpFrame

\* submit_job sending on the channel run created last, open or not
TpSubmit_Stale ==
  /\ TpCanCall
  /\ LET j == tp.jobs + 1
     IN tp' = IF tp.nchan # 0
                THEN [tp EXCEPT !.jobs = j,
                                !.chan[tp.nchan].queue = Append(@, j),
                                !.log = Logged("submit_job", Ok)]
                ELSE [tp EXCEPT !.jobs = j, !.log = Logged("submit_job", Err(j))]
  /\ TpFrame

\* submit_job: tx.send(f) when tx is Some, Err(f) otherwise
TpSubmit ==
  /\ TpCanCall
  /\ LET j == tp.jobs + 1
     IN tp' = IF tp.tx # 0
                THEN [tp EXCEPT !.jobs = j,
                                !.chan[tp.tx].queue = Append(@, j),
                                !.log = Logged("submit_job", Ok)]
                ELSE [tp EXCEPT !.jobs = j, !.log = Logged("submit_job", Err(j))]
  /\ TpFrame

\* shutdown answering true whenever it is called
TpShutdown_True ==
  /\ TpCanCall
  /\ tp' = [tp EXCEPT !.tx = 0,
                      !.chan = SenderDropped(tp, "shutdown"),
                      !.log = Logged("shutdown", Bool(TRUE))]
  /\ TpFrame

\* shutdown: self.tx.lock().unwrap().take().is_some()
TpShutdown ==
  /\ TpCanCall
  /\ tp' = [tp EXCEPT !.tx = 0,
                      !.chan = SenderDropped(tp, "shutdown"),
                      !.log = Logged("shutdown", Bool(tp.tx # 0))]
  /\ TpFrame

WorkerFrame == TpFrame

\* worker: lock.lock().unwrap(), and the wait re-acquiring the mutex
WorkerLock(c, w) ==
  /\ tp.chan[c].w[w] = "lock"
  /\ tp.chan[c].mutex = 0
  /\ tp' = [tp EXCEPT !.chan[c].mutex = w, !.chan[c].w[w] = "recv"]
  /\ WorkerFrame

\* worker: rx.try_recv(): a job, Empty (cv.wait releases the mutex), or
\* Disconnected (the loop breaks and the guard is dropped)
WorkerRecv(c, w) ==
  LET ch == tp.chan[c]
  IN /\ ch.w[w] = "recv"
     /\ tp' = IF ch.queue # <<>>
                THEN [tp EXCEPT !.chan[c].queue = Tail(@),
                                !.chan[c].job[w] = Head(ch.queue),
                                !.chan[c].w[w] = "job"]
                ELSE IF ch.st = "open"
                  THEN [tp EXCEPT !.chan[c].mutex = 0, !.chan[c].w[w] = "wait"]
                  ELSE [tp EXCEPT !.chan[c].mutex = 0, !.chan[c].w[w] = "exit"]
     /\ WorkerFrame

\* worker: cv.wait(rx) returns; nothing in the source notifies the Condvar,
\* so only a spurious wakeup ends the wait
WorkerWake(c, w) ==
  /\ tp.chan[c].w[w] = "wait"
  /\ tp' = [tp EXCEPT !.chan[c].w[w] = "lock"]
  /\ WorkerFrame

\* worker: (job)(), with the mutex still held
WorkerJob(c, w) ==
  LET ch == tp.chan[c]
  IN /\ ch.w[w] = "job"
     /\ tp' = [tp EXCEPT !.ran[ch.job[w]] = @ + 1,
                         !.chan[c].job[w] = 0,
                         !.chan[c].w[w] = "recv"]
     /\ WorkerFrame

NextTp ==
  \/ TpRun
  \/ TpSubmit
  \/ TpShutdown
  \/ \E c \in TpChans, w \in TpWorkers :
       \/ WorkerLock(c, w)
       \/ WorkerRecv(c, w)
       \/ WorkerWake(c, w)
       \/ WorkerJob(c, w)

SpecTp == InitTp /\ [][NextTp]_vars

RECURSIVE Started(_)
\* after the calls in log, in this order, the pool has been started by run
\* and not been shut down since
Started(log) ==
  IF log = <<>> THEN FALSE
  ELSE LET last == log[Len(log)].op
       IN IF last = "run" THEN TRUE
          ELSE IF last = "shutdown" THEN FALSE
          ELSE Started(SubSeq(log, 1, Len(log) - 1))

\* the channels whose sender a shutdown call dropped
ShutDown(T) == {c \in TpChans : T.chan[c].closer = "shutdown"}

\* the shutdown calls of this history that returned true
TrueShutdowns ==
  {i \in 1..Len(tp.log) : tp.log[i] = [op |-> "shutdown", ret |-> Bool(TRUE)]}

\* C25: a shutdown call returns true exactly when the pool had been started
\* by run and not shut down since, and then this call is the one that closes
\* the job channel; it returns false before run and after an earlier
\* shutdown and then closes nothing.  So of the shutdown calls made on one
\* started pool, concurrent or not, at most one returns true: each true
\* answer closed a channel of its own.
C25_ShutdownOnce ==
  [][(Len(tp'.log) = Len(tp.log) + 1 /\ tp'.log[Len(tp'.log)].op = "shutdown")
       => LET r == tp'.log[Len(tp'.log)].ret
          IN /\ r \in {Bool(TRUE), Bool(FALSE)}
             /\ (r = Bool(TRUE)) <=> Started(tp.log)
             /\ (r = Bool(TRUE))
                  => /\ tp.tx # 0 /\ tp.chan[tp.tx].st = "open"
                     /\ ShutDown(tp') = ShutDown(tp) \cup {tp.tx}
                     /\ tp.tx \notin ShutDown(tp)
                     /\ tp'.chan[tp.tx].st = "closed"
             /\ (r = Bool(FALSE)) => tp'.chan = tp.chan
             /\ tp'.tx = 0
             /\ Cardinality(TrueShutdowns') = Cardinality(ShutDown(tp'))]_vars

\* run, a shutdown that returned true, and a later shutdown that returned
\* false
C25_Witness ==
  /\ tp.kind = "tp"
  /\ tp.log = <<[op |-> "run", ret |-> Unit],
                [op |-> "shutdown", ret |-> Bool(TRUE)],
                [op |-> "shutdown", ret |-> Bool(FALSE)]>>

IsSubmit(e) == e.op = "submit_job"

\* the submit_job calls of the history, in order: call number j handed in
\* job j
Submits(T) == SelectSeq(T.log, IsSubmit)

\* job j was handed to a submit_job call that returned Ok
Accepted(j) == j <= Len(Submits(tp)) /\ Submits(tp)[j].ret = Ok

\* job j was handed to a submit_job call that returned it in Err
Rejected(j) == j <= Len(Submits(tp)) /\ Submits(tp)[j].ret = Err(j)

\* the jobs waiting on a queue or held by a worker
Queued(T) ==
  {j \in TpJobs : \E c \in TpChans :
     \/ \E i \in 1..Len(T.chan[c].queue) : T.chan[c].queue[i] = j
     \/ \E w \in TpWorkers : T.chan[c].job[w] = j}

\* the workers running a job
Executing == {cw \in TpChans \X TpWorkers : tp.chan[cw[1]].w[cw[2]] = "job"}

\* SpecTpFair: every worker thread that can take a step of its loop gets to
\* take it.  A wait on the Condvar ends only by a notification, which
\* the source never sends, or by a spurious wakeup, which no scheduler
\* promises: WorkerWake carries no fairness.
FairTp ==
  \A c \in TpChans, w \in TpWorkers :
    /\ WF_vars(WorkerLock(c, w))
    /\ WF_vars(WorkerRecv(c, w))
    /\ WF_vars(WorkerJob(c, w))

SpecTpFair == SpecTp /\ FairTp

\* C34: every job that a submit_job call accepted (returned Ok) is
\* eventually executed by a worker, and no job is executed more than once,
\* also when the job is submitted while every worker is already waiting for
\* work.
C34_AcceptedJobRuns ==
  /\ [](\A j \in TpJobs : tp.ran[j] <= 1)
  /\ \A j \in TpJobs : Accepted(j) ~> (tp.ran[j] = 1)

\* C35: a submit_job call made while the pool has no open channel (before
\* run, or after shutdown) returns Err with the job handed in and neither
\* queues nor runs it, and such a job is never queued or run later; a call
\* that returns Ok has put the job at the back of the queue of the open
\* channel.
C35_SubmitErr ==
  /\ [][(Len(tp'.log) = Len(tp.log) + 1 /\ tp'.log[Len(tp'.log)].op = "submit_job")
         => LET r == tp'.log[Len(tp'.log)].ret
                j == Len(Submits(tp)) + 1
            IN /\ r \in {Ok, Err(j)}
               /\ ~Started(tp.log) => r = Err(j)
               /\ (r = Err(j))
                    => /\ tp'.chan = tp.chan
                       /\ tp'.ran = tp.ran
                       /\ tp'.tx = tp.tx
                       /\ j \notin Queued(tp')
               /\ (r = Ok)
                    => /\ tp.tx # 0
                       /\ tp.chan[tp.tx].st = "open"
                       /\ tp'.chan = [tp.chan EXCEPT ![tp.tx].queue = Append(@, j)]
                       /\ tp'.ran = tp.ran]_vars
  /\ [](\A j \in TpJobs : Rejected(j) => (tp.ran[j] = 0 /\ j \notin Queued(tp)))

\* a job rejected before run and never run, and a job accepted after run and
\* executed
C35_Witness ==
  /\ tp.kind = "tp"
  /\ tp.log = <<[op |-> "submit_job", ret |-> Err(1)],
                [op |-> "run", ret |-> Unit],
                [op |-> "submit_job", ret |-> Ok]>>
  /\ tp.ran[1] = 0 /\ tp.ran[2] = 1

\* SpecTpTwice: histories of one call more, which have room for two run
\* calls with a submit_job after each.
InitTpTwice ==
  /\ NoContainer
  /\ twin = NoTwin
  /\ pool = NoPool
  /\ app = NoApp
  /\ \E n \in TpWorkers : tp = [tp_new(n) EXCEPT !.limit = MaxTpCalls + 1]

SpecTpTwice == InitTpTwice /\ [][NextTp]_vars

\* C36: at most one job is executing at any instant, and the worker that
\* executes it holds the mutex of its receiver from the dequeue until the job
\* has finished.
C36_OneJobAtATime ==
  /\ Cardinality(Executing) <= 1
  /\ \A cw \in Executing : tp.chan[cw[1]].mutex = cw[2]

(***************************************************************************)
(* SpecPres: the functions of PResult<T, E> applied to every value, and    *)
(* to every pair of values, over Values for both T and E.  app.self and    *)
(* app.other are the arguments, app.op the closure handed to the function  *)
(* (a function from Values to PResult), app.fn the function applied and    *)
(* app.out its result.                                                     *)
(***************************************************************************)

POk(t) == [tag |-> "POk", t |-> t]
PPartial(t, e) == [tag |-> "PPartial", t |-> t, e |-> e]
PErr(e) == [tag |-> "PErr", e |-> e]

PResults ==
  {POk(t) : t \in Values}
    \cup {PPartial(c[1], c[2]) : c \in Values \X Values}
    \cup {PErr(e) : e \in Values}

\* Result::Ok(v); Result::Err(v) is Err(v)
ROk(v) == [tag |-> "Ok", val |-> v]

\* the closures handed to and_then_any and or_else_any
Closures ==
  {[v \in Values |-> POk(v)],
   [v \in Values |-> PErr(v)],
   [v \in Values |-> PPartial(v, v)]}

\* matches!(*self, POk(_))
is_ok(x) == x.tag = "POk"

\* matches!(*self, PPartial(_, _))
is_partial(x) == x.tag = "PPartial"

\* matches!(*self, PErr(_))
is_err(x) == x.tag = "PErr"

\* has_ok matching POk only
has_ok_OkOnly(x) == x.tag = "POk"

\* matches!(*self, POk(_) | PPartial(_, _))
has_ok(x) == x.tag = "POk" \/ x.tag = "PPartial"

\* matches!(*self, PErr(_) | PPartial(_, _))
has_err(x) == x.tag = "PErr" \/ x.tag = "PPartial"

\* try_join_exclusive joining POk with PErr in this order only
try_join_exclusive_OneWay(x, y) ==
  CASE x.tag = "POk" /\ y.tag = "PErr" -> ROk(PPartial(x.t, y.e))
    [] OTHER -> Err(<<x, y>>)

\* match (self, other) { (POk(t), PErr(e)) | (PErr(e), POk(t)) => Ok(PPartial(t, e)),
\*                       (this, other) => Err((this, other)) }
try_join_exclusive(x, y) ==
  CASE x.tag = "POk" /\ y.tag = "PErr" -> ROk(PPartial(x.t, y.e))
    [] x.tag = "PErr" /\ y.tag = "POk" -> ROk(PPartial(y.t, x.e))
    [] OTHER -> Err(<<x, y>>)

\* POk(t) | PPartial(t, _) => POk(t), PErr(e) => PErr(e)
partial_into_pok(x) ==
  CASE x.tag = "POk" \/ x.tag = "PPartial" -> POk(x.t)
    [] x.tag = "PErr" -> PErr(x.e)

\* POk(t) => POk(t), PPartial(_, e) | PErr(e) => PErr(e)
partial_into_perr(x) ==
  CASE x.tag = "POk" -> POk(x.t)
    [] x.tag = "PPartial" \/ x.tag = "PErr" -> PErr(x.e)

\* POk(t) | PPartial(t, _) => Ok(t), PErr(e) => Err(e)
into_res_ok(x) ==
  CASE x.tag = "POk" \/ x.tag = "PPartial" -> ROk(x.t)
    [] x.tag = "PErr" -> Err(x.e)

\* into_res_err mapping PPartial as into_res_ok does
into_res_err_Ok(x) ==
  CASE x.tag = "POk" \/ x.tag = "PPartial" -> ROk(x.t)
    [] x.tag = "PErr" -> Err(x.e)

\* POk(t) => Ok(t), PPartial(_, e) | PErr(e) => Err(e)
into_res_err(x) ==
  CASE x.tag = "POk" -> ROk(x.t)
    [] x.tag = "PPartial" \/ x.tag = "PErr" -> Err(x.e)

\* POk(_) | PPartial(_, _) => pres, PErr(e) => PErr(e)
and_any(x, pres) ==
  CASE x.tag = "POk" \/ x.tag = "PPartial" -> pres
    [] x.tag = "PErr" -> PErr(x.e)

\* POk(t) | PPartial(t, _) => op(t), PErr(e) => PErr(e)
and_then_any(x, op) ==
  CASE x.tag = "POk" \/ x.tag = "PPartial" -> op[x.t]
    [] x.tag = "PErr" -> PErr(x.e)

\* or_any keeping a PPartial self
or_any_Partial(x, pres) ==
  CASE x.tag = "POk" -> POk(x.t)
    [] x.tag = "PPartial" -> x
    [] x.tag = "PErr" -> pres

\* POk(t) => POk(t), PPartial(_, _) | PErr(_) => pres
or_any(x, pres) ==
  CASE x.tag = "POk" -> POk(x.t)
    [] x.tag = "PPartial" \/ x.tag = "PErr" -> pres

\* POk(t) => POk(t), PPartial(_, e) | PErr(e) => op(e)
or_else_any(x, op) ==
  CASE x.tag = "POk" -> POk(x.t)
    [] x.tag = "PPartial" \/ x.tag = "PErr" -> op[x.e]

InitPres ==
  /\ NoContainer
  /\ twin = NoTwin
  /\ pool = NoPool
  /\ tp = NoTp
  /\ \E x, y \in PResults :
       app = [kind |-> "pres", self |-> x, other |-> y, op |-> <<>>, fn |-> "none", out |-> None]

\* the function named fn was applied and returned r
Applied(fn, op, r) ==
  /\ app.fn = "none"
  /\ app' = [app EXCEPT !.fn = fn, !.op = op, !.out = r]
  /\ UNCHANGED <<heap, slot, nAlloc, nRelease, phase, hist, pc, tptr, rets, calls, uaf>>
  /\ UNCHANGED <<ord, arc, held, twin, pool, tp>>

Apply_is_ok ==
  /\ app.kind = "pres"
  /\ Applied("is_ok", <<>>, Bool(is_ok(app.self)))

Apply_is_partial ==
  /\ app.kind = "pres"
  /\ Applied("is_partial", <<>>, Bool(is_partial(app.self)))

Apply_is_err ==
  /\ app.kind = "pres"
  /\ Applied("is_err", <<>>, Bool(is_err(app.self)))

Apply_has_ok ==
  /\ app.kind = "pres"
  /\ Applied("has_ok", <<>>, Bool(has_ok(app.self)))

Apply_has_err ==
  /\ app.kind = "pres"
  /\ Applied("has_err", <<>>, Bool(has_err(app.self)))

Apply_try_join_exclusive ==
  /\ app.kind = "pres"
  /\ Applied("try_join_exclusive", <<>>, try_join_exclusive(app.self, app.other))

Apply_partial_into_pok ==
  /\ app.kind = "pres"
  /\ Applied("partial_into_pok", <<>>, partial_into_pok(app.self))

Apply_partial_into_perr ==
  /\ app.kind = "pres"
  /\ Applied("partial_into_perr", <<>>, partial_into_perr(app.self))

Apply_into_res_ok ==
  /\ app.kind = "pres"
  /\ Applied("into_res_ok", <<>>, into_res_ok(app.self))

Apply_into_res_err ==
  /\ app.kind = "pres"
  /\ Applied("into_res_err", <<>>, into_res_err(app.self))

Apply_and_any ==
  /\ app.kind = "pres"
  /\ Applied("and_any", <<>>, and_any(app.self, app.other))

Apply_and_then_any ==
  /\ app.kind = "pres"
  /\ \E op \in Closures :
       Applied("and_then_any", op, and_then_any(app.self, op))

Apply_or_any ==
  /\ app.kind = "pres"
  /\ Applied("or_any", <<>>, or_any(app.self, app.other))

Apply_or_else_any ==
  /\ app.kind = "pres"
  /\ \E op \in Closures :
       Applied("or_else_any", op, or_else_any(app.self, op))

NextPres ==
  \/ Apply_is_ok
  \/ Apply_is_partial
  \/ Apply_is_err
  \/ Apply_has_ok
  \/ Apply_has_err
  \/ Apply_try_join_exclusive
  \/ Apply_partial_into_pok
  \/ Apply_partial_into_perr
  \/ Apply_into_res_ok
  \/ Apply_into_res_err
  \/ Apply_and_any
  \/ Apply_and_then_any
  \/ Apply_or_any
  \/ Apply_or_else_any

SpecPres == InitPres /\ [][NextPres]_vars

\* the variant of x is one of vs
Variant(x, vs) == x.tag \in vs

C27_JoinExclusive ==
  (app.kind = "pres" /\ app.fn = "try_join_exclusive")
    => LET a == app.self
           b == app.other
       IN /\ (a.tag = "POk" /\ b.tag = "PErr") => app.out = ROk(PPartial(a.t, b.e))
          /\ (a.tag = "PErr" /\ b.tag = "POk") => app.out = ROk(PPartial(b.t, a.e))
          /\ (app.out.tag = "Ok") <=> ({a.tag, b.tag} = {"POk", "PErr"})
          /\ (app.out.tag # "Ok") => app.out = Err(<<a, b>>)

\* PErr(e) joined with POk(t), in this order, gave Ok(PPartial(t, e))
C27_Witness ==
  /\ app.kind = "pres"
  /\ app.fn = "try_join_exclusive"
  /\ app.self.tag = "PErr"
  /\ app.other.tag = "POk"
  /\ app.out = ROk(PPartial(app.other.t, app.self.e))

\* C28: partial_into_pok turns PPartial(t, e) into POk(t), partial_into_perr
\* turns it into PErr(e), and both return POk and PErr values as they are,
\* so applying either twice gives what applying it once gives; into_res_ok
\* and into_res_err give Ok(t) for POk(t) and Err(e) for PErr(e), and for
\* PPartial(t, e) into_res_ok gives Ok(t) and into_res_err gives Err(e).
C28_PartialInto ==
  (app.kind = "pres"
     /\ app.fn \in {"partial_into_pok", "partial_into_perr", "into_res_ok", "into_res_err"})
    => LET x == app.self
           toOk == app.fn \in {"partial_into_pok", "into_res_ok"}
           res == app.fn \in {"into_res_ok", "into_res_err"}
       IN /\ (x.tag = "POk" /\ ~res) => app.out = x
          /\ (x.tag = "PErr" /\ ~res) => app.out = x
          /\ (x.tag = "PPartial" /\ ~res) => app.out = (IF toOk THEN POk(x.t) ELSE PErr(x.e))
          /\ (x.tag = "POk" /\ res) => app.out = ROk(x.t)
          /\ (x.tag = "PErr" /\ res) => app.out = Err(x.e)
          /\ (x.tag = "PPartial" /\ res) => app.out = (IF toOk THEN ROk(x.t) ELSE Err(x.e))
          /\ app.fn = "partial_into_pok" => partial_into_pok(app.out) = app.out
          /\ app.fn = "partial_into_perr" => partial_into_perr(app.out) = app.out
          /\ app.fn = "into_res_ok" => app.out = into_res_ok(partial_into_pok(x))
          /\ app.fn = "into_res_err" => app.out = into_res_err(partial_into_perr(x))

\* into_res_err turned a PPartial(t, e) with t # e into Err(e)
C28_Witness ==
  /\ app.kind = "pres"
  /\ app.fn = "into_res_err"
  /\ app.self.tag = "PPartial"
  /\ app.self.t # app.self.e
  /\ app.out = Err(app.self.e)

\* C29: and_any(self, other) is other when self is POk or PPartial and
\* self's PErr otherwise; or_any(self, other) is self only when self is POk
\* and other when self is PPartial or PErr; and_then_any and or_else_any are
\* the same with what the closure returns in place of other, the closure
\* being given self's value in and_then_any and self's error in or_else_any.
C29_AndOrAny ==
  (app.kind = "pres" /\ app.fn \in {"and_any", "and_then_any", "or_any", "or_else_any"})
    => LET x == app.self
       IN /\ app.fn = "and_any"
               => app.out = (IF x.tag \in {"POk", "PPartial"} THEN app.other ELSE x)
          /\ app.fn = "and_then_any"
               => app.out = (IF x.tag \in {"POk", "PPartial"} THEN app.op[x.t] ELSE x)
          /\ app.fn = "or_any"
               => app.out = (IF x.tag = "POk" THEN x ELSE app.other)
          /\ app.fn = "or_else_any"
               => app.out = (IF x.tag = "POk" THEN x ELSE app.op[x.e])

\* or_any on a PPartial self returned an other that differs from self
C29_Witness ==
  /\ app.kind = "pres"
  /\ app.fn = "or_any"
  /\ app.self.tag = "PPartial"
  /\ app.other # app.self
  /\ app.out = app.other

(***************************************************************************)
(* SpecPread: PartialRead::pread_to_end and pread_to_string on a reader    *)
(* that hands over some bytes and then ends or fails.  app.buf is the      *)
(* length of the caller's buffer, app.len the length the function noted    *)
(* before reading, app.got the number of bytes the reader handed over,     *)
(* app.res what read_to_end (read_to_string) returned and                  *)
(* app.out the result.  The standard library's reads append to the buffer: *)
(* at end of input they return Ok(n) with n the number of bytes appended,  *)
(* on an I/O error they return Err and leave what they appended, and       *)
(* read_to_string on bytes that are not UTF-8 returns Err with the buffer  *)
(* as it was.  Lengths are usize, UsizeBits wide in the model.             *)
(***************************************************************************)

MaxLen == MaxOps
UsizeBits == 16
PreadFns == {"pread_to_end", "pread_to_string"}

\* a - b on usize: when b > a the subtraction overflows, which panics in a
\* build with overflow checks (None) and wraps around in one without
usize_sub(a, b) ==
  IF a >= b
    THEN {Some(a - b)}
    ELSE {None, Some((a - b + 2 ^ UsizeBits) % (2 ^ UsizeBits))}

\* the panic of an overflowing subtraction, in place of a result
Panicked == [tag |-> "panic"]

\* pread_to_end: the match on what read_to_end returned, len being the
\* length noted before the read and after the length of buf now
pread_to_end(len, after, res) ==
  IF res.tag = "Ok" THEN {POk(res.val)}
  ELSE IF after = len THEN {PErr(res.val)}
  ELSE {IF d = None THEN Panicked ELSE PPartial(d.val, res.val) : d \in usize_sub(len, after)}

\* pread_to_string: the match on what read_to_string returned
pread_to_string(len, after, res) ==
  IF res.tag = "Ok" THEN {POk(res.val)}
  ELSE IF after = len THEN {PErr(res.val)}
  ELSE {IF d = None THEN Panicked ELSE PPartial(d.val, res.val) : d \in usize_sub(len, after)}

InitPread ==
  /\ NoContainer
  /\ twin = NoTwin
  /\ pool = NoPool
  /\ tp = NoTp
  /\ \E fn \in PreadFns, n \in 0..MaxLen :
       app = [kind |-> "pread", fn |-> fn, buf |-> n, len |-> 0, got |-> 0,
              st |-> "call", res |-> None, out |-> None]

PreadFrame ==
  /\ UNCHANGED <<heap, slot, nAlloc, nRelease, phase, hist, pc, tptr, rets, calls, uaf>>
  /\ UNCHANGED <<ord, arc, held, twin, pool, tp>>

\* let len = buf.len()
PreadBegin ==
  /\ app.kind = "pread"
  /\ app.st = "call"
  /\ app' = [app EXCEPT !.len = app.buf, !.st = "read"]
  /\ PreadFrame

\* the read appends a byte it got from the reader
ReadAppend ==
  /\ app.kind = "pread"
  /\ app.st = "read"
  /\ app.got < MaxLen
  /\ app' = [app EXCEPT !.buf = @ + 1, !.got = @ + 1]
  /\ PreadFrame

\* the reader is at its end: Ok(n), n bytes appended
ReadEof ==
  /\ app.kind = "pread"
  /\ app.st = "read"
  /\ app' = [app EXCEPT !.res = ROk(app.buf - app.len), !.st = "match"]
  /\ PreadFrame

\* the reader fails: Err(e), the bytes appended so far stay in buf
ReadFails(e) ==
  /\ app.kind = "pread"
  /\ app.st = "read"
  /\ app' = [app EXCEPT !.res = Err(e), !.st = "match"]
  /\ PreadFrame

\* read_to_string finds bytes that are not UTF-8: Err(e), buf as it was
ReadBadUtf8(e) ==
  /\ app.kind = "pread"
  /\ app.fn = "pread_to_string"
  /\ app.st = "read"
  /\ app.got > 0
  /\ app' = [app EXCEPT !.buf = app.len, !.res = Err(e), !.st = "match"]
  /\ PreadFrame

Match_pread_to_end ==
  /\ app.kind = "pread"
  /\ app.fn = "pread_to_end"
  /\ app.st = "match"
  /\ \E r \in pread_to_end(app.len, app.buf, app.res) :
       app' = [app EXCEPT !.out = r, !.st = "done"]
  /\ PreadFrame

Match_pread_to_string ==
  /\ app.kind = "pread"
  /\ app.fn = "pread_to_string"
  /\ app.st = "match"
  /\ \E r \in pread_to_string(app.len, app.buf, app.res) :
       app' = [app EXCEPT !.out = r, !.st = "done"]
  /\ PreadFrame

NextPread ==
  \/ PreadBegin
  \/ ReadAppend
  \/ ReadEof
  \/ \E e \in Values : ReadFails(e)
  \/ \E e \in Values : ReadBadUtf8(e)
  \/ Match_pread_to_end
  \/ Match_pread_to_string

SpecPread == InitPread /\ [][NextPread]_vars

\* C38: when the read failed with e after appending k > 0 bytes, the result
\* is PPartial(k, e), k being the length of buf after the read minus its
\* length before; when it failed with nothing appended the result is
\* PErr(e); when it returned Ok(n) the result is POk(n).
C38_PartialCount ==
  (app.kind = "pread" /\ app.st = "done")
    => LET k == app.buf - app.len
       IN /\ app.res.tag = "Ok" => app.out = POk(app.res.val)
          /\ (app.res.tag = "Err" /\ k = 0) => app.out = PErr(app.res.val)
          /\ (app.res.tag = "Err" /\ k > 0) => app.out = PPartial(k, app.res.val)

(***************************************************************************)
(* SpecInput: get_input::<T> on a finite reader.  A line is a sequence of  *)
(* characters, the reader a sequence of lines; read_line appends the next  *)
(* line with its newline to the line buffer, and at end of input appends   *)
(* nothing and returns Ok(0).  T is i32 or String: "7".."77" parse as i32, *)
(* every string parses as String.  app.src is the reader's content,        *)
(* app.next the line it stands at, app.line the line buffer, app.out the   *)
(* value returned.  The prompt is printed and changes nothing here.        *)
(* get_stdin_input is the same loop on stdin.                              *)
(***************************************************************************)

MaxLineLen == MaxVal
MaxLines == MaxVal
Chars == {" ", "7", "x"}
Whitespace == {" ", "\n"}
InputTypes == {"i32", "String"}
Lines == UNION {[1..n -> Chars] : n \in 0..MaxLineLen}
Readers == UNION {[1..n -> Lines] : n \in 0..MaxLines}

RECURSIVE trim_start(_)
trim_start(s) ==
  IF s # <<>> /\ Head(s) \in Whitespace THEN trim_start(Tail(s)) ELSE s

RECURSIVE trim_end(_)
trim_end(s) ==
  IF s # <<>> /\ s[Len(s)] \in Whitespace THEN trim_end(SubSeq(s, 1, Len(s) - 1)) ELSE s

\* str::trim
trim(s) == trim_end(trim_start(s))

RECURSIVE decimal(_)
\* the number a string of digits denotes
decimal(s) ==
  IF s = <<>> THEN 0
  ELSE 10 * decimal(SubSeq(s, 1, Len(s) - 1)) + (CASE s[Len(s)] = "7" -> 7)

\* str::parse::<T>: i32 wants one digit at least and digits only, String
\* takes every string
parse(T, s) ==
  IF T = "String" THEN ROk(s)
  ELSE IF s # <<>> /\ \A i \in 1..Len(s) : s[i] = "7" THEN ROk(decimal(s))
  ELSE Err("invalid")

InitInput ==
  /\ NoContainer
  /\ twin = NoTwin
  /\ pool = NoPool
  /\ tp = NoTp
  /\ \E T \in InputTypes, r \in Readers :
       app = [kind |-> "input", T |-> T, src |-> r, next |-> 1, line |-> <<>>,
              st |-> "clear", out |-> None]

InputFrame ==
  /\ UNCHANGED <<heap, slot, nAlloc, nRelease, phase, hist, pc, tptr, rets, calls, uaf>>
  /\ UNCHANGED <<ord, arc, held, twin, pool, tp>>

\* line.clear()
InputClear ==
  /\ app.kind = "input"
  /\ app.st = "clear"
  /\ app' = [app EXCEPT !.line = <<>>, !.st = "read"]
  /\ InputFrame

\* reader.read_line(&mut line)? returning Ok: the next line is appended, or
\* nothing at end of input
InputReadLine ==
  /\ app.kind = "input"
  /\ app.st = "read"
  /\ app' = IF app.next <= Len(app.src)
              THEN [app EXCEPT !.line = app.line \o app.src[app.next] \o <<"\n">>,
                               !.next = @ + 1,
                               !.st = "parse"]
              ELSE [app EXCEPT !.st = "parse"]
  /\ InputFrame

\* reader.read_line(&mut line)? returning Err(e): get_input returns it
InputReadFails(e) ==
  /\ app.kind = "input"
  /\ app.st = "read"
  /\ app' = [app EXCEPT !.out = Err(e), !.st = "done"]
  /\ InputFrame

\* if let Ok(t) = line.trim().parse() { break Ok(t); }, else the next turn
InputParse ==
  /\ app.kind = "input"
  /\ app.st = "parse"
  /\ LET p == parse(app.T, trim(app.line))
     IN app' = IF p.tag = "Ok"
                 THEN [app EXCEPT !.out = p, !.st = "done"]
                 ELSE [app EXCEPT !.st = "clear"]
  /\ InputFrame

NextInput ==
  \/ InputClear
  \/ InputReadLine
  \/ \E e \in Values : InputReadFails(e)
  \/ InputParse

\* the thread running get_input keeps running; a read need not fail
FairInput ==
  /\ WF_vars(InputClear)
  /\ WF_vars(InputReadLine)
  /\ WF_vars(InputParse)

SpecInput == InitInput /\ [][NextInput]_vars /\ FairInput

\* the lines of reader r that parse as T once trimmed
Parsing(T, r) == {i \in 1..Len(r) : parse(T, trim(r[i])).tag = "Ok"}

\* C37: get_input returns on every finite reader; what it returns in Ok is
\* the first line that parses as T, trimmed and parsed, the lines before it
\* being skipped; with no such line it still returns once the reader is at
\* its end.
C37_InputReturns ==
  /\ [](app.kind = "input" /\ app.st = "done" /\ app.out.tag = "Ok"
          => LET P == Parsing(app.T, app.src)
             IN IF P # {}
                  THEN \E i \in P :
                         /\ \A k \in P : i <= k
                         /\ app.out = parse(app.T, trim(app.src[i]))
                         /\ app.next = i + 1
                  ELSE app.next = Len(app.src) + 1)
  /\ <>(app.kind = "input" /\ app.st = "done")

====
